---- MODULE Spec2Model ----
(***************************************************************************)
(* VideoPlayerEngine (src/video_to_ascii/render_strategy/ascii_strategy.py) *)
(* as a state machine: the render thread running start(), the callers of    *)
(* add_video / return_to_idle, and one caller of stop() (the input handler  *)
(* of src/player_example.py).                                               *)
(***************************************************************************)
EXTENDS Integers, Sequences, FiniteSets, TLC

\* ------------------------------------------------------------------ bounds
\* number of requests the callers may hand to the queue
MaxRequests == 2
\* frames of the longest video file
MaxFrames == 2
\* AsciiStrategy.transition_frames, the frame-count budget (15 in the source,
\* 20 in player_example.py; any positive attribute value is allowed)
transition_frames == 2
\* the tallest terminal
MaxRows == 3

\* ------------------------------------------------------------- constants
\* PlayerState
IDLE == "idle"
TRANSITIONING == "transitioning"
PLAYING == "playing"

\* the argument scan_speed=3 the engine passes to scan_transition
ScanSpeed == 3

\* the idle video path given to the constructor
idle_video_path == "idle"
\* the paths callers ask for
Paths == {"a", "b"}
\* the clip behind the third key of video_map in player_example.py
ThirdPath == "c"
\* Python's None as a queue item / path
NonePath == "None"

\* the threads that call return_to_idle()
Callers == {"c1", "c2"}
\* the thread that calls stop()
StopCallers == {"stopper"}
\* the threads that call stop() in the example
ExampleStopCallers == {"input_thread", "main_thread"}
\* terminal heights the terminal may report: the smallest and the tallest
Rows == {1, MaxRows}
TransitionTypes == {"crossfade", "wipe", "scan"}
Directions == {"top", "bottom", "left", "right"}

\* frames of a file long enough for the self-loop to start from a tail
\* position above 0
LongFrames == transition_frames + 3

\* total-frame-count of the file behind a path: "b" is a single frame, "a"
\* is long, the idle video has MaxFrames frames
FrameCount(p) ==
    IF p = "b" THEN 1
    ELSE IF p = "a" THEN LongFrames
    ELSE MaxFrames

Max(a, b) == IF a >= b THEN a ELSE b
Min(a, b) == IF a <= b THEN a ELSE b

\* --------------------------------------------------- the capture objects
\* Python's None where a capture is expected
NoCap == [path |-> NonePath, pos |-> 0, opened |-> FALSE]

\* cv2.VideoCapture(path): the file system decides ok; VideoCapture(None)
\* yields a capture that is not opened
VideoCapture(p, ok) == [path |-> p, pos |-> 0, opened |-> (ok /\ p # NonePath)]

\* cap.read(): ret is False on a released capture and at end of stream
CapReadOk(c) == c.opened /\ c.pos < FrameCount(c.path)
CapAfterRead(c) == IF CapReadOk(c) THEN [c EXCEPT !.pos = @ + 1] ELSE c

\* cap.set(cv2.CAP_PROP_POS_FRAMES, n): nothing on a released capture
CapSet(c, n) == IF c.opened /\ n >= 0 THEN [c EXCEPT !.pos = n] ELSE c

\* cap.get(cv2.CAP_PROP_FRAME_COUNT): 0 on a released capture
CapFrameCount(c) == IF c.opened THEN FrameCount(c.path) ELSE 0

\* cap.release(): a released capture reports position 0
CapRelease(c) == [c EXCEPT !.opened = FALSE, !.pos = 0]

\* frames a capture can still deliver
Remaining(c) == IF c.opened THEN Max(0, FrameCount(c.path) - c.pos) ELSE 0

\* 1 for a capture that holds an open handle
Opened(c) == IF c.opened THEN 1 ELSE 0


\* ------------------------------------------- floating-point arithmetic
\* Python's float is the IEEE 754 double: every operation gives the exact
\* result rounded to 53 significant bits, ties to the even neighbour. A
\* finite double >= 0 is kept as [m, exp], the value m * 2^exp, where the
\* natural number m < 2^53 is the sequence of its digits in base 2^15 (most
\* significant first, no leading zero; zero is the empty sequence).
DoubleBits == 53
LimbBits == 15
LimbBase == 2^LimbBits

\* zero digits for the dividend of a division, enough for the quotient of a
\* double by an integer below 2^15 to have more than 54 significant bits
GuardLimbs == 5

Zeros(n) == [i \in 1..n |-> 0]
Front(x) == SubSeq(x, 1, Len(x) - 1)

RECURSIVE StripZeros(_)
StripZeros(x) == IF x # <<>> /\ Head(x) = 0 THEN StripZeros(Tail(x)) ELSE x

\* the digits of a natural number below 2^31
RECURSIVE Limbs(_)
Limbs(n) == IF n = 0 THEN <<>> ELSE Append(Limbs(n \div LimbBase), n % LimbBase)

\* the natural number with the given digits (below 2^31)
RECURSIVE LimbsValue(_)
LimbsValue(x) ==
    IF x = <<>> THEN 0 ELSE LimbBase * LimbsValue(Front(x)) + x[Len(x)]

\* the number of bits of a natural number
RECURSIVE BitLength(_)
BitLength(n) == IF n = 0 THEN 0 ELSE 1 + BitLength(n \div 2)

BigBitLength(x) ==
    IF x = <<>> THEN 0 ELSE LimbBits * (Len(x) - 1) + BitLength(Head(x))

\* the digits of x * k + carry, for k below 2^15
RECURSIVE BigTimes(_, _, _)
BigTimes(x, k, carry) ==
    IF x = <<>> THEN Limbs(carry)
    ELSE LET t == x[Len(x)] * k + carry
         IN  Append(BigTimes(Front(x), k, t \div LimbBase), t % LimbBase)

\* long division of x by d (below 2^15), from remainder rem: the digits of
\* the quotient and the remainder
RECURSIVE BigDivMod(_, _, _)
BigDivMod(x, d, rem) ==
    IF x = <<>> THEN [q |-> <<>>, r |-> rem]
    ELSE LET t == rem * LimbBase + Head(x)
             rest == BigDivMod(Tail(x), d, t % d)
         IN  [q |-> <<t \div d>> \o rest.q, r |-> rest.r]

\* x with its last s bits cut off, and whether a 1 was cut off
RECURSIVE ShiftRight(_, _)
ShiftRight(x, s) ==
    IF s = 0 THEN [q |-> x, lost |-> FALSE]
    ELSE LET b == IF s < LimbBits THEN s ELSE LimbBits - 1
             division == BigDivMod(x, 2^b, 0)
             rest == ShiftRight(StripZeros(division.q), s - b)
         IN  [q |-> rest.q, lost |-> rest.lost \/ division.r # 0]

\* the digits of x + 1
RECURSIVE BigPlusOne(_)
BigPlusOne(x) ==
    IF x = <<>> THEN <<1>>
    ELSE IF x[Len(x)] + 1 < LimbBase THEN Append(Front(x), x[Len(x)] + 1)
    ELSE Append(BigPlusOne(Front(x)), 0)

\* the digits of a - b - borrow for sequences of one length, a >= b
RECURSIVE BigMinus(_, _, _)
BigMinus(a, b, borrow) ==
    IF a = <<>> THEN <<>>
    ELSE LET t == a[Len(a)] - b[Len(b)] - borrow
         IN  Append(BigMinus(Front(a), Front(b), IF t < 0 THEN 1 ELSE 0),
                    IF t < 0 THEN t + LimbBase ELSE t)

\* the double nearest to (x + fraction) * 2^exp, where the fraction is in
\* [0, 1) and is not zero exactly when sticky holds: a number of more than
\* 53 bits is cut to 53, and rounded up when what is cut off is more than
\* half a unit of the last bit kept, or is half a unit and that bit is 1
RoundToDouble(x, sticky, exp) ==
    IF BigBitLength(x) <= DoubleBits THEN [m |-> x, exp |-> exp]
    ELSE LET s == BigBitLength(x) - DoubleBits
             shifted == ShiftRight(x, s - 1)
             half == shifted.q[Len(shifted.q)] % 2 = 1
             keep == StripZeros(BigDivMod(shifted.q, 2, 0).q)
             odd == keep[Len(keep)] % 2 = 1
             up == half /\ (sticky \/ shifted.lost \/ odd)
             m == IF up THEN BigPlusOne(keep) ELSE keep
         IN  IF BigBitLength(m) > DoubleBits
             THEN [m |-> StripZeros(BigDivMod(m, 2, 0).q), exp |-> exp + s + 1]
             ELSE [m |-> m, exp |-> exp + s]

\* float(n) for a natural number below 2^31
FromInt(n) == [m |-> Limbs(n), exp |-> 0]

\* x * k for a double x and a natural number k below 2^15
FloatTimes(x, k) == RoundToDouble(StripZeros(BigTimes(x.m, k, 0)), FALSE, x.exp)

\* x / d for a double x and a natural number d, 0 < d < 2^15
FloatOver(x, d) ==
    LET division == BigDivMod(x.m \o Zeros(GuardLimbs), d, 0)
    IN  RoundToDouble(StripZeros(division.q), division.r # 0,
                      x.exp - GuardLimbs * LimbBits)

\* 1 - x for a double x in [0, 1]
OneMinus(x) ==
    IF x.m = <<>> THEN FromInt(1)
    ELSE IF x.exp >= 0 THEN FromInt(0)
    ELSE LET n == 0 - x.exp
             one == <<2^(n % LimbBits)>> \o Zeros(n \div LimbBits)
             sub == Zeros(Len(one) - Len(x.m)) \o x.m
         IN  RoundToDouble(StripZeros(BigMinus(one, sub, 0)), FALSE, x.exp)

\* the digits of x * 2^s
RECURSIVE BigShiftLeft(_, _)
BigShiftLeft(x, s) ==
    IF x = <<>> THEN <<>>
    ELSE IF s >= LimbBits THEN BigShiftLeft(x \o <<0>>, s - LimbBits)
    ELSE StripZeros(BigTimes(x, 2^s, 0))

\* x < y for the digits of two natural numbers
RECURSIVE BigLess(_, _)
BigLess(x, y) ==
    IF Len(x) # Len(y) THEN Len(x) < Len(y)
    ELSE IF x = <<>> THEN FALSE
    ELSE IF Head(x) # Head(y) THEN Head(x) < Head(y)
    ELSE BigLess(Tail(x), Tail(y))

\* two numbers m * 2^exp brought to their smaller exponent
AlignedPair(a, b) ==
    LET e == IF a.exp < b.exp THEN a.exp ELSE b.exp
    IN  [a |-> BigShiftLeft(a.m, a.exp - e), b |-> BigShiftLeft(b.m, b.exp - e),
         exp |-> e]

\* a < b and a = b for two doubles >= 0, whatever their exponents
FloatLess(a, b) == LET p == AlignedPair(a, b) IN BigLess(p.a, p.b)
SameValue(a, b) == LET p == AlignedPair(a, b) IN p.a = p.b

\* the number a - b itself, not rounded, for a >= b >= 0
ExactMinus(a, b) ==
    LET p == AlignedPair(a, b)
        sub == Zeros(Len(p.a) - Len(p.b)) \o p.b
    IN  [m |-> StripZeros(BigMinus(p.a, sub, 0)), exp |-> p.exp]

\* a - b for two doubles >= 0: the exact difference rounded to a double,
\* with its sign
FloatMinus(a, b) ==
    LET neg == FloatLess(a, b)
        d == IF neg THEN ExactMinus(b, a) ELSE ExactMinus(a, b)
        r == RoundToDouble(d.m, FALSE, d.exp)
    IN  [neg |-> neg, m |-> r.m, exp |-> r.exp]

\* the double without its sign
Magnitude(x) == [m |-> x.m, exp |-> x.exp]

\* the same double with an odd m (zero: no digit, exponent 0)
RECURSIVE Canonical(_)
Canonical(x) ==
    IF x.m = <<>> THEN [m |-> <<>>, exp |-> 0]
    ELSE IF x.m[Len(x.m)] % 2 = 1 THEN x
    ELSE Canonical([m |-> StripZeros(BigDivMod(x.m, 2, 0).q), exp |-> x.exp + 1])

\* int(x): the whole part of a double x >= 0 (below 2^31)
FloatToInt(x) ==
    IF x.exp >= 0 THEN LimbsValue(x.m) * 2^x.exp
    ELSE LimbsValue(ShiftRight(x.m, 0 - x.exp).q)

\* -------------------------------------------------------------- the state
VARIABLES
    is_running,          \* self.is_running
    state,               \* self.state
    video_queue,         \* self.video_queue (queue.Queue, FIFO)
    current_cap,         \* self.current_cap
    current_video_path,  \* self.current_video_path
    lock,                \* holder of self.lock: "free" or "render"
    transition_type,     \* self.transition_type (set by start)
    transition_direction,\* self.transition_direction (set by start)
    pc,                  \* position of the thread that runs start()
    cap,                 \* local cap of _play_idle
    to_cap,              \* local to_cap / idle_cap / start_cap
    video_path,          \* local video_path
    rows,                \* local rows (terminal height sampled by the handler)
    total_frames,        \* local total_frames of _loop_current_video
    tr,                  \* locals of the transition in progress
    composites,          \* composite frames emitted by the running transition
    stop_pc,             \* position of each stop() caller
    rti_waiting,         \* return_to_idle() callers waiting at `with self.lock`
    enqueued,            \* history: every item put, in order
    dequeued,            \* history: every item got, in order
    observed_stop,       \* history: a loop of start() has read is_running == False
    args,                \* the arguments the caller of start() passes
    open_handles,        \* history: captures opened and not yet released
    terminal_rows,       \* the height the terminal has now
    input_pc,            \* position of the input_handler thread of the example
    fx                   \* the frame-level computation under study, or NoFx

vars == <<is_running, state, video_queue, current_cap, current_video_path, lock,
          transition_type, transition_direction, pc, cap, to_cap, video_path,
          rows, total_frames, tr, composites, stop_pc, rti_waiting, enqueued,
          dequeued, observed_stop, args, open_handles, terminal_rows, input_pc,
          fx>>

engine == <<is_running, state, video_queue, current_cap, current_video_path>>
locals == <<cap, to_cap, video_path, rows, total_frames, tr, composites>>
others == <<stop_pc, rti_waiting>>
settings == <<transition_type, transition_direction, args, terminal_rows,
              input_pc, fx>>
config == <<settings, open_handles>>
\* everything but fx
program == <<engine, lock, pc, locals, others, enqueued, dequeued, observed_stop,
             transition_type, transition_direction, args, open_handles,
             terminal_rows, input_pc>>

\* locals of a transition that is not running: the capture it reads as cap1
\* ("cap" or "current"), its direction, loop index i, scan cursor
\* current_line, frame height h, where the caller continues, (history) the
\* frames cap1 had left when the transition was called, and the value the
\* transition function returned
NoTr == [from |-> "none", dir |-> "none", i |-> 0, line |-> 0, h |-> 0,
         ret |-> "none", rem |-> 0, out |-> "none"]

\* the engine is driven by callers other than the example's input_handler
NoHandler == "none"

\* no frame-level computation is under study
NoFx == [fn |-> "none"]

\* VideoPlayerEngine.__init__: the engine before start() is called, and the
\* threads that will call stop()
EngineInit(stoppers) ==
    /\ is_running = FALSE
    /\ state = IDLE
    /\ video_queue = <<>>
    /\ current_cap = NoCap
    /\ current_video_path = NonePath
    /\ lock = "free"
    /\ transition_type = "unset"
    /\ transition_direction = "unset"
    /\ pc = "not_started"
    /\ cap = NoCap
    /\ to_cap = NoCap
    /\ video_path = NonePath
    /\ rows = 0
    /\ total_frames = 0
    /\ tr = NoTr
    /\ composites = 0
    /\ stop_pc = [c \in stoppers |-> "ready"]
    /\ rti_waiting = 0
    /\ enqueued = <<>>
    /\ dequeued = <<>>
    /\ observed_stop = FALSE
    /\ open_handles = 0

\* the engine, the arguments its caller will pass to start(), and the
\* terminal it runs in
Init ==
    /\ EngineInit(StopCallers)
    /\ args \in [type : TransitionTypes, direction : Directions]
    /\ terminal_rows \in Rows
    /\ input_pc = NoHandler
    /\ fx = NoFx

\* ------------------------------------------------------------ the terminal
\* os.get_terminal_size() / stty size: the height the terminal has now
get_terminal_size == terminal_rows

\* the user resizes the terminal, at any time
Resize ==
    /\ \E r \in Rows \ {terminal_rows} : terminal_rows' = r
    /\ UNCHANGED <<engine, lock, pc, locals, others, enqueued, dequeued,
                   observed_stop, transition_type, transition_direction, args,
                   open_handles, input_pc, fx>>

\* ------------------------------------------------------ the request queue
\* queue.Queue.put
QueuePut(q, item) == Append(q, item)
\* a get that serves the newest item first
QueueGetItem_Newest(q) == q[Len(q)]
\* the item queue.Queue.get returns
QueueGetItem(q) == Head(q)
\* the queue queue.Queue.get leaves
QueueGetRest(q) == Tail(q)

\* add_video(video_path): one put, no lock
AddVideo(p) ==
    /\ Len(enqueued) < MaxRequests
    /\ video_queue' = QueuePut(video_queue, p)
    /\ enqueued' = Append(enqueued, p)
    /\ UNCHANGED <<is_running, state, current_cap, current_video_path, lock,
                   pc, dequeued, observed_stop>>
    /\ UNCHANGED <<locals, others, config>>

\* return_to_idle(): one more caller reaches `with self.lock`
RtiCall ==
    /\ rti_waiting < Cardinality(Callers)
    /\ Len(enqueued) < MaxRequests
    /\ rti_waiting' = rti_waiting + 1
    /\ UNCHANGED <<engine, lock, pc, stop_pc, enqueued, dequeued, observed_stop>>
    /\ UNCHANGED <<locals, config>>

\* return_to_idle(): the lock is free, the body of one of the waiting
\* callers runs and the lock is released
RtiRun ==
    /\ rti_waiting > 0
    /\ lock = "free"
    /\ rti_waiting' = rti_waiting - 1
    /\ IF state = PLAYING
       THEN /\ video_queue' = QueuePut(video_queue, NonePath)
            /\ enqueued' = Append(enqueued, NonePath)
       ELSE UNCHANGED <<video_queue, enqueued>>
    /\ UNCHANGED <<is_running, state, current_cap, current_video_path, lock, pc,
                   stop_pc, dequeued, observed_stop>>
    /\ UNCHANGED <<locals, config>>

\* ------------------------------------------------------------------ stop()
\* positions of a stop() caller at which it is not inside stop(): it has not
\* called, or its last call returned; or its last call raised
NoStopUnderWay == {"ready", "raised"}

\* self.is_running = False; stop() is public: it can be called before
\* start() has run, by several threads, and again after an earlier call
StopCall(c) ==
    /\ stop_pc[c] \in NoStopUnderWay
    /\ is_running' = FALSE
    /\ stop_pc' = [stop_pc EXCEPT ![c] = "check"]
    /\ UNCHANGED <<state, video_queue, current_cap, current_video_path, lock, pc,
                   rti_waiting, enqueued, dequeued, observed_stop>>
    /\ UNCHANGED <<locals, config>>

\* if self.current_cap:
StopCheck(c) ==
    /\ stop_pc[c] = "check"
    /\ stop_pc' = [stop_pc EXCEPT
                      ![c] = IF current_cap # NoCap THEN "release" ELSE "ready"]
    /\ UNCHANGED <<engine, lock, pc, rti_waiting, enqueued, dequeued, observed_stop>>
    /\ UNCHANGED <<locals, config>>

\* self.current_cap.release(): the attribute is read again; on None the
\* call raises AttributeError in the caller of stop()
StopRelease(c) ==
    /\ stop_pc[c] = "release"
    /\ IF current_cap = NoCap
       THEN /\ stop_pc' = [stop_pc EXCEPT ![c] = "raised"]
            /\ UNCHANGED current_cap
       ELSE /\ stop_pc' = [stop_pc EXCEPT ![c] = "ready"]
            /\ current_cap' = CapRelease(current_cap)
    /\ UNCHANGED <<is_running, state, video_queue, current_video_path, lock, pc,
                   rti_waiting, enqueued, dequeued, observed_stop>>
    /\ open_handles' = open_handles - Opened(current_cap)
    /\ UNCHANGED <<locals, settings>>

\* ----------------------------------------------------------------- start()
\* is_running = True, the transition settings are stored
StartCall ==
    /\ pc = "not_started"
    /\ transition_type' = args.type
    /\ transition_direction' = args.direction
    /\ is_running' = TRUE
    /\ pc' = "start_loop"
    /\ UNCHANGED <<state, video_queue, current_cap, current_video_path, lock,
                   enqueued, dequeued, observed_stop, args, open_handles,
                   terminal_rows, input_pc, fx>>
    /\ UNCHANGED <<locals, others>>

\* while self.is_running:
StartLoop ==
    /\ pc = "start_loop"
    /\ IF is_running
       THEN pc' = "acquire" /\ UNCHANGED observed_stop
       ELSE pc' = "returned" /\ observed_stop' = TRUE
    /\ UNCHANGED <<engine, lock, enqueued, dequeued>>
    /\ UNCHANGED <<locals, others, config>>

\* the handler start() runs for a state, none for TRANSITIONING
Dispatch(s) ==
    IF s = IDLE THEN "idle_open"
    ELSE IF s = PLAYING THEN "play_entry"
    ELSE "release"

\* with self.lock: and the dispatch on self.state
Acquire ==
    /\ pc = "acquire"
    /\ lock = "free"
    /\ lock' = "render"
    /\ pc' = Dispatch(state)
    /\ UNCHANGED <<engine, enqueued, dequeued, observed_stop>>
    /\ UNCHANGED <<locals, others, config>>

\* the handler has returned: its locals are gone (and with them the count
\* of what its transition emitted) and the with block ends
Release ==
    /\ pc = "release"
    /\ lock' = "free"
    /\ pc' = "start_loop"
    /\ cap' = IF cap.opened THEN cap ELSE NoCap
    /\ to_cap' = IF to_cap.opened THEN to_cap ELSE NoCap
    /\ video_path' = NonePath
    /\ rows' = 0
    /\ total_frames' = 0
    /\ tr' = NoTr
    /\ composites' = 0
    /\ UNCHANGED <<engine, enqueued, dequeued, observed_stop>>
    /\ UNCHANGED <<others, config>>

\* ------------------------------------------------------------ _play_idle()
\* cap = cv2.VideoCapture(self.idle_video_path); if it is opened, sample the
\* terminal size
IdleOpen ==
    /\ pc = "idle_open"
    /\ \E ok \in BOOLEAN :
          /\ cap' = VideoCapture(idle_video_path, ok)
          /\ IF ok
             THEN rows' = get_terminal_size /\ pc' = "idle_loop"
             ELSE rows' = rows /\ pc' = "idle_open_failed"
    /\ UNCHANGED <<engine, lock, to_cap, video_path, total_frames, tr, composites,
                   enqueued, dequeued, observed_stop>>
    /\ open_handles' = open_handles + Opened(cap')
    /\ UNCHANGED <<others, settings>>

\* if not cap.isOpened(): print the error and return to start()
IdleOpenFailed ==
    /\ pc = "idle_open_failed"
    /\ pc' = "release"
    /\ UNCHANGED <<engine, lock, enqueued, dequeued, observed_stop>>
    /\ UNCHANGED <<locals, others, config>>

\* an idle loop that does not poll the running flag
IdleContinues_IgnoresFlag == state = IDLE
\* the condition of the idle loop
IdleContinues == is_running /\ state = IDLE

\* while self.is_running and self.state == IDLE: and the queue check
IdleLoop ==
    /\ pc = "idle_loop"
    /\ IF IdleContinues
       THEN IF video_queue # <<>>
            THEN /\ state' = TRANSITIONING
                 /\ video_path' = QueueGetItem(video_queue)
                 /\ video_queue' = QueueGetRest(video_queue)
                 /\ dequeued' = Append(dequeued, QueueGetItem(video_queue))
                 /\ pc' = "ttv_open"
                 /\ UNCHANGED observed_stop
            ELSE /\ pc' = "idle_read"
                 /\ UNCHANGED <<state, video_path, video_queue, dequeued, observed_stop>>
       ELSE /\ pc' = "idle_exit"
            /\ observed_stop' = (observed_stop \/ ~is_running)
            /\ UNCHANGED <<state, video_path, video_queue, dequeued>>
    /\ UNCHANGED <<is_running, current_cap, current_video_path, lock, cap, to_cap,
                   rows, total_frames, tr, composites, enqueued>>
    /\ UNCHANGED <<others, config>>

\* an idle read that leaves the capture at its end
IdleAfterRead_NoSeek(c) == CapAfterRead(c)

\* the idle capture after ret, frame = cap.read() and, when the read
\* failed, cap.set(cv2.CAP_PROP_POS_FRAMES, 0)
IdleAfterRead(c) == IF CapReadOk(c) THEN CapAfterRead(c) ELSE CapSet(c, 0)

\* ret, frame = cap.read(); at end of stream seek to 0 and continue, else
\* go on to render the frame
IdleRead ==
    /\ pc = "idle_read"
    /\ cap' = IdleAfterRead(cap)
    /\ pc' = IF CapReadOk(cap) THEN "idle_render" ELSE "idle_loop"
    /\ UNCHANGED <<engine, lock, to_cap, video_path, rows, total_frames, tr,
                   composites, enqueued, dequeued, observed_stop>>
    /\ UNCHANGED <<others, config>>

\* the frame is resized, converted and written, and the loop sleeps for
\* the rest of the frame interval
IdleRender ==
    /\ pc = "idle_render"
    /\ pc' = "idle_loop"
    /\ UNCHANGED <<engine, lock, enqueued, dequeued, observed_stop>>
    /\ UNCHANGED <<locals, others, config>>

\* cap.release() after the loop
IdleExit ==
    /\ pc = "idle_exit"
    /\ cap' = CapRelease(cap)
    /\ pc' = "release"
    /\ UNCHANGED <<engine, lock, to_cap, video_path, rows, total_frames, tr,
                   composites, enqueued, dequeued, observed_stop>>
    /\ open_handles' = open_handles - Opened(cap)
    /\ UNCHANGED <<others, settings>>

\* -------------------------------------------------- _transition_to_video()
\* to_cap = cv2.VideoCapture(to_video_path)
TtvOpen ==
    /\ pc = "ttv_open"
    /\ \E ok \in BOOLEAN : to_cap' = VideoCapture(video_path, ok)
    /\ pc' = "ttv_check"
    /\ composites' = 0
    /\ UNCHANGED <<engine, lock, cap, video_path, rows, total_frames, tr,
                   enqueued, dequeued, observed_stop>>
    /\ open_handles' = open_handles + Opened(to_cap')
    /\ UNCHANGED <<others, settings>>

\* the first program point of the chosen transition algorithm
TransitionEntry(t) == IF t = "scan" THEN "scan_init" ELSE "tr_step"

\* an entry that leaves the state as it is when the source does not open
TtvCheck_KeepsTransitioning ==
    /\ pc = "ttv_check"
    /\ IF ~to_cap.opened
       THEN /\ pc' = "ttv_return"
            /\ to_cap' = NoCap
            /\ UNCHANGED tr
       ELSE /\ tr' = [NoTr EXCEPT !.from = "cap", !.dir = transition_direction,
                                  !.ret = "ttv_finish", !.rem = Remaining(cap)]
            /\ pc' = TransitionEntry(transition_type)
            /\ UNCHANGED to_cap
    /\ UNCHANGED <<engine, lock, cap, video_path, rows, total_frames, composites,
                   enqueued, dequeued, observed_stop>>
    /\ UNCHANGED <<others, config>>

\* if not to_cap.isOpened(): state = IDLE, return; else run the transition
TtvCheck ==
    /\ pc = "ttv_check"
    /\ IF ~to_cap.opened
       THEN /\ state' = IDLE
            /\ pc' = "ttv_return"
            /\ to_cap' = NoCap
            /\ UNCHANGED tr
       ELSE /\ tr' = [NoTr EXCEPT !.from = "cap", !.dir = transition_direction,
                                  !.ret = "ttv_finish", !.rem = Remaining(cap)]
            /\ pc' = TransitionEntry(transition_type)
            /\ UNCHANGED <<state, to_cap>>
    /\ UNCHANGED <<is_running, video_queue, current_cap, current_video_path, lock,
                   cap, video_path, rows, total_frames, composites, enqueued,
                   dequeued, observed_stop>>
    /\ UNCHANGED <<others, config>>

\* an entry that forgets to record the path of the new source
TtvFinish_NoPath ==
    /\ pc = "ttv_finish"
    /\ state' = PLAYING
    /\ current_cap' = to_cap
    /\ to_cap' = NoCap
    /\ tr' = NoTr
    /\ pc' = "ttv_return"
    /\ UNCHANGED <<is_running, video_queue, current_video_path, lock, cap,
                   video_path, rows, total_frames, composites, enqueued, dequeued,
                   observed_stop>>
    /\ UNCHANGED <<others, config>>

\* state = PLAYING; current_cap = to_cap; current_video_path = to_video_path
TtvFinish ==
    /\ pc = "ttv_finish"
    /\ state' = PLAYING
    /\ current_cap' = to_cap
    /\ current_video_path' = video_path
    /\ to_cap' = NoCap
    /\ tr' = NoTr
    /\ pc' = "ttv_return"
    /\ UNCHANGED <<is_running, video_queue, lock, cap, video_path, rows,
                   total_frames, composites, enqueued, dequeued, observed_stop>>
    /\ UNCHANGED <<others, config>>

\* back in _play_idle: cap.release(); return
TtvReturn ==
    /\ pc = "ttv_return"
    /\ cap' = CapRelease(cap)
    /\ pc' = "release"
    /\ UNCHANGED <<engine, lock, to_cap, video_path, rows, total_frames, tr,
                   composites, enqueued, dequeued, observed_stop>>
    /\ open_handles' = open_handles - Opened(cap)
    /\ UNCHANGED <<others, settings>>

\* ------------------------------------------- the transition algorithms
\* cap1 of the running transition: the idle capture or self.current_cap
FromCap == IF tr.from = "cap" THEN cap ELSE current_cap

SetFromCap(c) ==
    IF tr.from = "cap"
    THEN cap' = c /\ UNCHANGED current_cap
    ELSE current_cap' = c /\ UNCHANGED cap

\* the height of the frames of the file behind a path
FrameHeight(p) == IF p = "a" THEN 240 ELSE 144

\* resize_frame: reduction_factor = float(rows) / height * 100 and
\* reduced_height = int(height * reduction_factor / 100), the height the
\* frame is resized to for a terminal of r rows; it is r, or r - 1 when the
\* roundings of the four operations leave the quotient just under r
ResizedHeight(height, r) ==
    LET reduction_factor == FloatTimes(FloatOver(FromInt(r), height), 100)
    IN  FloatToInt(FloatOver(FloatTimes(reduction_factor, height), 100))

\* the heights the frames of the files are resized to, for every size of
\* the terminal
ResizedHeights ==
    [p \in Paths \cup {ThirdPath, idle_video_path} |->
        [r \in Rows |-> ResizedHeight(FrameHeight(p), r)]]

\* lines_per_frame of a strategy whose transition_frames is budget
LinesPerFrameAt(h, budget) == Max(1, h \div budget)

\* values of the attribute transition_frames around the one in use
Budgets == 1..(transition_frames + 1)

\* lines_per_frame without the floor of 1
LinesPerFrame_Truncated(h) == h \div transition_frames

\* lines_per_frame = max(1, int(total_lines / self.transition_frames))
LinesPerFrame(h) == Max(1, h \div transition_frames)

\* a return value that drops the incoming frame when the outgoing source
\* has run out
TransitionResult_DropsIncoming(ret1, ret2) ==
    IF ~ret1 THEN "None"
    ELSE IF ~ret2 THEN "frame1"
    ELSE "composite"

\* crossfade_transition / wipe_transition after the two reads of a pass:
\* the frame returned when a read failed, else the pass renders a composite
TransitionResult(ret1, ret2) ==
    IF ~ret1
    THEN IF ret2 THEN "frame2" ELSE "None"
    ELSE IF ~ret2 THEN "frame1"
    ELSE "composite"

\* a crossfade / wipe pass that renders although the outgoing source has
\* run out
TrStep_IgnoresOutgoingEnd ==
    /\ pc = "tr_step"
    /\ IF tr.i >= transition_frames
       THEN /\ pc' = tr.ret
            /\ tr' = [tr EXCEPT !.out = "frame2"]
            /\ UNCHANGED <<cap, current_cap, to_cap, composites>>
       ELSE /\ SetFromCap(CapAfterRead(FromCap))
            /\ to_cap' = CapAfterRead(to_cap)
            /\ IF CapReadOk(to_cap)
               THEN /\ composites' = composites + 1
                    /\ tr' = [tr EXCEPT !.i = @ + 1]
                    /\ pc' = "tr_step"
               ELSE /\ pc' = tr.ret
                    /\ tr' = [tr EXCEPT !.out = TransitionResult(CapReadOk(FromCap),
                                                                 CapReadOk(to_cap))]
                    /\ UNCHANGED composites
    /\ UNCHANGED <<is_running, state, video_queue, current_video_path, lock,
                   video_path, rows, total_frames, enqueued, dequeued, observed_stop>>
    /\ UNCHANGED <<others, config>>

\* crossfade_transition / wipe_transition: one pass of `for i in
\* range(self.transition_frames)`: both captures are read; the function
\* returns when either read fails, else one composite is rendered; after
\* the last pass it returns the last incoming frame
TrStep ==
    /\ pc = "tr_step"
    /\ IF tr.i >= transition_frames
       THEN /\ pc' = tr.ret
            /\ tr' = [tr EXCEPT !.out = "frame2"]
            /\ UNCHANGED <<cap, current_cap, to_cap, composites>>
       ELSE /\ SetFromCap(CapAfterRead(FromCap))
            /\ to_cap' = CapAfterRead(to_cap)
            /\ IF CapReadOk(FromCap) /\ CapReadOk(to_cap)
               THEN /\ composites' = composites + 1
                    /\ tr' = [tr EXCEPT !.i = @ + 1]
                    /\ pc' = "tr_step"
               ELSE /\ pc' = tr.ret
                    /\ tr' = [tr EXCEPT !.out = TransitionResult(CapReadOk(FromCap),
                                                                 CapReadOk(to_cap))]
                    /\ UNCHANGED composites
    /\ UNCHANGED <<is_running, state, video_queue, current_video_path, lock,
                   video_path, rows, total_frames, enqueued, dequeued, observed_stop>>
    /\ UNCHANGED <<others, config>>

\* scan_transition: return frame2 if ret2 else frame1, where the frame of
\* a failed read is None
ScanInitResult(ret1, ret2) ==
    IF ret2 THEN "frame2" ELSE IF ret1 THEN "frame1" ELSE "None"

\* scan_transition: the initial reads; return if either fails, else the
\* frames are resized and the cursor starts at line 0
ScanInit ==
    /\ pc = "scan_init"
    /\ SetFromCap(CapAfterRead(FromCap))
    /\ to_cap' = CapAfterRead(to_cap)
    /\ IF CapReadOk(FromCap) /\ CapReadOk(to_cap)
       THEN /\ tr' = [tr EXCEPT !.h = ResizedHeights[FromCap.path][rows],
                                 !.line = 0]
            /\ pc' = "scan_loop"
       ELSE /\ pc' = tr.ret
            /\ tr' = [tr EXCEPT !.out = ScanInitResult(CapReadOk(FromCap),
                                                       CapReadOk(to_cap))]
    /\ UNCHANGED <<is_running, state, video_queue, current_video_path, lock,
                   video_path, rows, total_frames, composites, enqueued, dequeued,
                   observed_stop>>
    /\ UNCHANGED <<others, config>>

\* scan_transition: one pass of `while current_line < total_lines`: both
\* captures are read (a failed read keeps the previous frame), one composite
\* is rendered, the cursor advances by lines_per_frame; after the loop the
\* last incoming frame is returned
ScanLoop ==
    /\ pc = "scan_loop"
    /\ IF tr.line < tr.h
       THEN /\ SetFromCap(CapAfterRead(FromCap))
            /\ to_cap' = CapAfterRead(to_cap)
            /\ composites' = composites + 1
            /\ tr' = [tr EXCEPT !.line = @ + LinesPerFrame(tr.h)]
            /\ pc' = "scan_loop"
       ELSE /\ pc' = tr.ret
            /\ tr' = [tr EXCEPT !.out = "frame2"]
            /\ UNCHANGED <<cap, current_cap, to_cap, composites>>
    /\ UNCHANGED <<is_running, state, video_queue, current_video_path, lock,
                   video_path, rows, total_frames, enqueued, dequeued, observed_stop>>
    /\ UNCHANGED <<others, config>>

\* ---------------------------------------------------- _play_queued_video()
\* if self.current_cap is None: state = IDLE, return; else sample the size
PlayEntry ==
    /\ pc = "play_entry"
    /\ IF current_cap = NoCap
       THEN /\ state' = IDLE
            /\ pc' = "release"
            /\ UNCHANGED rows
       ELSE /\ rows' = get_terminal_size
            /\ pc' = "play_loop"
            /\ UNCHANGED state
    /\ UNCHANGED <<is_running, video_queue, current_cap, current_video_path, lock,
                   cap, to_cap, video_path, total_frames, tr, composites, enqueued,
                   dequeued, observed_stop>>
    /\ UNCHANGED <<others, config>>

\* the condition of the playing loop
PlayContinues == is_running /\ state = PLAYING

\* where the playing loop goes with a dequeued item: None is the sentinel
PlayRequestTarget(item) == IF item = NonePath THEN "tbi_open" ELSE "tnv_open"

\* while self.is_running and self.state == PLAYING: and the queue check
PlayLoop ==
    /\ pc = "play_loop"
    /\ IF PlayContinues
       THEN IF video_queue # <<>>
            THEN /\ video_path' = QueueGetItem(video_queue)
                 /\ video_queue' = QueueGetRest(video_queue)
                 /\ dequeued' = Append(dequeued, QueueGetItem(video_queue))
                 /\ pc' = PlayRequestTarget(QueueGetItem(video_queue))
                 /\ UNCHANGED observed_stop
            ELSE /\ pc' = "play_read"
                 /\ UNCHANGED <<video_path, video_queue, dequeued, observed_stop>>
       ELSE /\ pc' = "release"
            /\ observed_stop' = (observed_stop \/ ~is_running)
            /\ UNCHANGED <<video_path, video_queue, dequeued>>
    /\ UNCHANGED <<is_running, state, current_cap, current_video_path, lock, cap,
                   to_cap, rows, total_frames, tr, composites, enqueued>>
    /\ UNCHANGED <<others, config>>

\* ret, frame = self.current_cap.read(); render it, or loop the video
PlayRead ==
    /\ pc = "play_read"
    /\ current_cap' = CapAfterRead(current_cap)
    /\ pc' = IF CapReadOk(current_cap) THEN "play_loop" ELSE "loop_entry"
    /\ UNCHANGED <<is_running, state, video_queue, current_video_path, lock, cap,
                   to_cap, video_path, rows, total_frames, tr, composites, enqueued,
                   dequeued, observed_stop>>
    /\ UNCHANGED <<others, config>>

\* --------------------------------------------------- _loop_current_video()
\* a tail position that leaves no room for the passes
TransitionStart_AtEnd(total) == Max(0, total - 1)

\* transition_start = max(0, int(total_frames - transition_frames - 2))
TransitionStart(total) == Max(0, total - transition_frames - 2)

\* total_frames is read and the live capture is positioned near its end
LoopEntry ==
    /\ pc = "loop_entry"
    /\ IF current_cap = NoCap \/ current_video_path = NonePath
       THEN /\ pc' = "play_loop"
            /\ UNCHANGED <<total_frames, current_cap>>
       ELSE /\ total_frames' = CapFrameCount(current_cap)
            /\ current_cap' = CapSet(current_cap, TransitionStart(CapFrameCount(current_cap)))
            /\ pc' = "loop_open"
    /\ UNCHANGED <<is_running, state, video_queue, current_video_path, lock, cap,
                   to_cap, video_path, rows, tr, composites, enqueued, dequeued,
                   observed_stop>>
    /\ UNCHANGED <<others, config>>

\* start_cap = cv2.VideoCapture(self.current_video_path); if it is not
\* opened the live capture is reset to frame 0 and the function returns
LoopOpen ==
    /\ pc = "loop_open"
    /\ \E ok \in BOOLEAN :
          IF VideoCapture(current_video_path, ok).opened
          THEN /\ to_cap' = VideoCapture(current_video_path, ok)
               /\ tr' = [NoTr EXCEPT !.from = "current", !.dir = transition_direction]
               /\ pc' = "loop_iter"
               /\ UNCHANGED current_cap
          ELSE /\ current_cap' = CapSet(current_cap, 0)
               /\ pc' = "play_loop"
               /\ UNCHANGED <<to_cap, tr>>
    /\ composites' = 0
    /\ UNCHANGED <<is_running, state, video_queue, current_video_path, lock, cap,
                   video_path, rows, total_frames, enqueued, dequeued, observed_stop>>
    /\ open_handles' = open_handles + (IF pc' = "loop_iter" THEN 1 ELSE 0)
    /\ UNCHANGED <<others, settings>>

\* the live capture after the tail read of one pass: a failed read seeks to
\* total_frames - 1 and reads again
TailAfterRead(c, total) ==
    IF CapReadOk(c) THEN CapAfterRead(c) ELSE CapAfterRead(CapSet(c, total - 1))

\* whether the pass got a tail frame, directly or by the second read
TailReadOk(c, total) == CapReadOk(c) \/ CapReadOk(CapSet(c, total - 1))

\* one pass of `for i in range(self.strategy.transition_frames)`
LoopIter ==
    /\ pc = "loop_iter"
    /\ IF tr.i >= transition_frames
       THEN /\ pc' = "loop_end"
            /\ UNCHANGED <<current_cap, to_cap, tr, composites>>
       ELSE /\ current_cap' = TailAfterRead(current_cap, total_frames)
            /\ to_cap' = CapAfterRead(to_cap)
            /\ IF TailReadOk(current_cap, total_frames) /\ CapReadOk(to_cap)
               THEN /\ composites' = composites + 1
                    /\ tr' = [tr EXCEPT !.i = @ + 1]
                    /\ pc' = "loop_iter"
               ELSE /\ pc' = "loop_end"
                    /\ UNCHANGED <<tr, composites>>
    /\ UNCHANGED <<is_running, state, video_queue, current_video_path, lock, cap,
                   video_path, rows, total_frames, enqueued, dequeued, observed_stop>>
    /\ UNCHANGED <<others, config>>

\* a self-loop that does not release its second handle
LoopEnd_NoRelease ==
    /\ pc = "loop_end"
    /\ to_cap' = NoCap
    /\ current_cap' = CapSet(current_cap, 0)
    /\ tr' = NoTr
    /\ pc' = "play_loop"
    /\ UNCHANGED <<is_running, state, video_queue, current_video_path, lock, cap,
                   video_path, rows, total_frames, composites, enqueued, dequeued,
                   observed_stop>>
    /\ UNCHANGED <<others, config>>

\* start_cap.release(); self.current_cap.set(cv2.CAP_PROP_POS_FRAMES, 0)
LoopEnd ==
    /\ pc = "loop_end"
    /\ to_cap' = NoCap
    /\ current_cap' = CapSet(current_cap, 0)
    /\ tr' = NoTr
    /\ pc' = "play_loop"
    /\ UNCHANGED <<is_running, state, video_queue, current_video_path, lock, cap,
                   video_path, rows, total_frames, composites, enqueued, dequeued,
                   observed_stop>>
    /\ open_handles' = open_handles - Opened(to_cap)
    /\ UNCHANGED <<others, settings>>

\* --------------------------------------------- _transition_to_next_video()
\* to_cap = cv2.VideoCapture(to_video_path)
TnvOpen ==
    /\ pc = "tnv_open"
    /\ \E ok \in BOOLEAN : to_cap' = VideoCapture(video_path, ok)
    /\ pc' = "tnv_check"
    /\ composites' = 0
    /\ UNCHANGED <<engine, lock, cap, video_path, rows, total_frames, tr,
                   enqueued, dequeued, observed_stop>>
    /\ open_handles' = open_handles + Opened(to_cap')
    /\ UNCHANGED <<others, settings>>

\* a switch that gives up the current source when the next does not open
TnvCheck_DropsCurrent ==
    /\ pc = "tnv_check"
    /\ IF ~to_cap.opened
       THEN /\ pc' = "play_loop"
            /\ to_cap' = NoCap
            /\ current_cap' = CapRelease(current_cap)
            /\ UNCHANGED tr
       ELSE /\ tr' = [NoTr EXCEPT !.from = "current", !.dir = transition_direction,
                                  !.ret = "tnv_finish",
                                  !.rem = Remaining(current_cap)]
            /\ pc' = TransitionEntry(transition_type)
            /\ UNCHANGED <<to_cap, current_cap>>
    /\ UNCHANGED <<is_running, state, video_queue, current_video_path, lock, cap,
                   video_path, rows, total_frames, composites, enqueued, dequeued,
                   observed_stop>>
    /\ open_handles' = open_handles - (IF to_cap.opened THEN 0 ELSE Opened(current_cap))
    /\ UNCHANGED <<others, settings>>

\* if not to_cap.isOpened(): return; else run the transition
TnvCheck ==
    /\ pc = "tnv_check"
    /\ IF ~to_cap.opened
       THEN /\ pc' = "play_loop"
            /\ to_cap' = NoCap
            /\ UNCHANGED tr
       ELSE /\ tr' = [NoTr EXCEPT !.from = "current", !.dir = transition_direction,
                                  !.ret = "tnv_finish",
                                  !.rem = Remaining(current_cap)]
            /\ pc' = TransitionEntry(transition_type)
            /\ UNCHANGED to_cap
    /\ UNCHANGED <<engine, lock, cap, video_path, rows, total_frames, composites,
                   enqueued, dequeued, observed_stop>>
    /\ UNCHANGED <<others, config>>

\* a switch that keeps the handle of the old source open
TnvFinish_NoRelease ==
    /\ pc = "tnv_finish"
    /\ current_cap' = to_cap
    /\ current_video_path' = video_path
    /\ to_cap' = NoCap
    /\ tr' = NoTr
    /\ pc' = "play_loop"
    /\ UNCHANGED <<is_running, state, video_queue, lock, cap, video_path, rows,
                   total_frames, composites, enqueued, dequeued, observed_stop>>
    /\ UNCHANGED <<others, config>>

\* current_cap.release(); current_cap = to_cap; current_video_path = path
TnvFinish ==
    /\ pc = "tnv_finish"
    /\ current_cap' = to_cap
    /\ current_video_path' = video_path
    /\ to_cap' = NoCap
    /\ tr' = NoTr
    /\ pc' = "play_loop"
    /\ UNCHANGED <<is_running, state, video_queue, lock, cap, video_path, rows,
                   total_frames, composites, enqueued, dequeued, observed_stop>>
    /\ open_handles' = open_handles - Opened(current_cap)
    /\ UNCHANGED <<others, settings>>

\* --------------------------------------------- _transition_back_to_idle()
\* idle_cap = cv2.VideoCapture(self.idle_video_path)
TbiOpen ==
    /\ pc = "tbi_open"
    /\ \E ok \in BOOLEAN : to_cap' = VideoCapture(idle_video_path, ok)
    /\ pc' = "tbi_check"
    /\ composites' = 0
    /\ UNCHANGED <<engine, lock, cap, video_path, rows, total_frames, tr,
                   enqueued, dequeued, observed_stop>>
    /\ open_handles' = open_handles + Opened(to_cap')
    /\ UNCHANGED <<others, settings>>

\* return_direction = 'bottom' if self.transition_direction == 'top' else 'top'
ReturnDirection(d) == IF d = "top" THEN "bottom" ELSE "top"

\* if not idle_cap.isOpened(): drop the current source, state = IDLE,
\* return; else run the transition in the return direction
TbiCheck ==
    /\ pc = "tbi_check"
    /\ IF ~to_cap.opened
       THEN /\ current_cap' = NoCap
            /\ current_video_path' = NonePath
            /\ state' = IDLE
            /\ to_cap' = NoCap
            /\ pc' = "release"
            /\ UNCHANGED tr
       ELSE /\ tr' = [NoTr EXCEPT !.from = "current",
                                  !.dir = ReturnDirection(transition_direction),
                                  !.ret = "tbi_finish",
                                  !.rem = Remaining(current_cap)]
            /\ pc' = TransitionEntry(transition_type)
            /\ UNCHANGED <<current_cap, current_video_path, state, to_cap>>
    /\ UNCHANGED <<is_running, video_queue, lock, cap, video_path, rows,
                   total_frames, composites, enqueued, dequeued, observed_stop>>
    /\ open_handles' = open_handles - (IF to_cap.opened THEN 0 ELSE Opened(current_cap))
    /\ UNCHANGED <<others, settings>>

\* a return to idle that leaves the current source assigned
TbiFinish_KeepsSource ==
    /\ pc = "tbi_finish"
    /\ to_cap' = NoCap
    /\ state' = IDLE
    /\ tr' = NoTr
    /\ pc' = "release"
    /\ UNCHANGED <<is_running, video_queue, current_cap, current_video_path, lock,
                   cap, video_path, rows, total_frames, composites, enqueued,
                   dequeued, observed_stop>>
    /\ open_handles' = open_handles - Opened(to_cap)
    /\ UNCHANGED <<others, settings>>

\* current_cap.release(); current_cap = None; current_video_path = None;
\* idle_cap.release(); state = IDLE
TbiFinish ==
    /\ pc = "tbi_finish"
    /\ current_cap' = NoCap
    /\ current_video_path' = NonePath
    /\ to_cap' = NoCap
    /\ state' = IDLE
    /\ tr' = NoTr
    /\ pc' = "release"
    /\ UNCHANGED <<is_running, video_queue, lock, cap, video_path, rows,
                   total_frames, composites, enqueued, dequeued, observed_stop>>
    /\ open_handles' = open_handles - Opened(current_cap) - Opened(to_cap)
    /\ UNCHANGED <<others, settings>>

\* ------------------------------------------------------- the specification
\* the steps of the thread that runs start()
Render ==
    \/ StartCall \/ StartLoop \/ Acquire \/ Release
    \/ IdleOpen \/ IdleOpenFailed \/ IdleLoop \/ IdleRead \/ IdleRender \/ IdleExit
    \/ TtvOpen \/ TtvCheck \/ TtvFinish \/ TtvReturn
    \/ TrStep \/ ScanInit \/ ScanLoop
    \/ PlayEntry \/ PlayLoop \/ PlayRead
    \/ LoopEntry \/ LoopOpen \/ LoopIter \/ LoopEnd
    \/ TnvOpen \/ TnvCheck \/ TnvFinish
    \/ TbiOpen \/ TbiCheck \/ TbiFinish

\* the steps of the thread that calls stop()
Stopper == \E c \in StopCallers : StopCall(c) \/ StopCheck(c) \/ StopRelease(c)

\* the steps of the threads that enqueue
Producers ==
    \/ \E p \in Paths : AddVideo(p)
    \/ RtiCall
    \/ RtiRun

Next == Render \/ Stopper \/ Producers \/ Resize

Spec == Init /\ [][Next]_vars

\* The scheduler runs every thread that can take a step: the thread in
\* start() is never suspended for ever, a stop() that was called runs to
\* its end, and a return_to_idle() caller gets a lock that stays free. The
\* entry direction is fixed (it decides no branch of the control flow) and
\* the terminal keeps the size it has when the engine is built.
InitFair == Init /\ args.direction = "top"
NextFair == Render \/ Stopper \/ Producers
FairSpec ==
    /\ InitFair
    /\ [][NextFair]_vars
    /\ WF_vars(Render)
    /\ \A c \in StopCallers : WF_vars(StopCheck(c) \/ StopRelease(c))
    /\ WF_vars(RtiRun)

\* ------------------------------------------ player_example.py: the example
\* video_map without its 'q' entry: the keys that queue a video
video_map ==
    [k \in {"1", "2", "3"} |->
        IF k = "1" THEN "a" ELSE IF k = "2" THEN "b" ELSE ThirdPath]

\* what no step of input_handler touches
beyond_handler == <<lock, pc, locals, rti_waiting, dequeued, observed_stop,
                    transition_type, transition_direction, args, open_handles,
                    terminal_rows, fx>>

\* the menu is printed
HandlerMenu ==
    /\ input_pc = "menu"
    /\ input_pc' = "test"
    /\ UNCHANGED <<engine, stop_pc, enqueued, beyond_handler>>

\* while player_engine.is_running:
HandlerTest ==
    /\ input_pc = "test"
    /\ input_pc' = IF is_running THEN "input" ELSE "exit_flag"
    /\ UNCHANGED <<engine, stop_pc, enqueued, beyond_handler>>

\* input() returns a key of video_map: player_engine.add_video(...)
HandlerAdd(k) ==
    /\ input_pc = "input"
    /\ Len(enqueued) < MaxRequests
    /\ video_queue' = QueuePut(video_queue, video_map[k])
    /\ enqueued' = Append(enqueued, video_map[k])
    /\ input_pc' = "test"
    /\ UNCHANGED <<is_running, state, current_cap, current_video_path, stop_pc,
                   beyond_handler>>

\* input() returns an empty line or an unknown key
HandlerInvalid ==
    /\ input_pc = "input"
    /\ input_pc' = "test"
    /\ UNCHANGED <<engine, stop_pc, enqueued, beyond_handler>>

\* input() returns 'q': player_engine.stop() is called, its first statement
\* runs
HandlerQuit ==
    /\ input_pc = "input"
    /\ stop_pc["input_thread"] \in NoStopUnderWay
    /\ is_running' = FALSE
    /\ stop_pc' = [stop_pc EXCEPT !["input_thread"] = "check"]
    /\ input_pc' = "quitting"
    /\ UNCHANGED <<state, video_queue, current_cap, current_video_path, enqueued,
                   beyond_handler>>

\* input() raises EOFError: break
HandlerEof ==
    /\ input_pc = "input"
    /\ input_pc' = "exit_eof"
    /\ UNCHANGED <<engine, stop_pc, enqueued, beyond_handler>>

\* input() raises KeyboardInterrupt: player_engine.stop() is called, its
\* first statement runs
HandlerInterrupt ==
    /\ input_pc = "input"
    /\ stop_pc["input_thread"] \in NoStopUnderWay
    /\ is_running' = FALSE
    /\ stop_pc' = [stop_pc EXCEPT !["input_thread"] = "check"]
    /\ input_pc' = "interrupting"
    /\ UNCHANGED <<state, video_queue, current_cap, current_video_path, enqueued,
                   beyond_handler>>

\* stop() has returned: break, the handler ends; stop() has raised
\* AttributeError: no except clause of the handler takes it, the thread dies
HandlerBreak ==
    /\ input_pc \in {"quitting", "interrupting"}
    /\ stop_pc["input_thread"] \in NoStopUnderWay
    /\ input_pc' = IF stop_pc["input_thread"] = "raised" THEN "exit_raised"
                   ELSE IF input_pc = "quitting" THEN "exit_quit"
                   ELSE "exit_interrupt"
    /\ UNCHANGED <<engine, stop_pc, enqueued, beyond_handler>>

\* the steps of the input_handler thread
Handler ==
    \/ HandlerMenu \/ HandlerTest
    \/ \E k \in DOMAIN video_map : HandlerAdd(k)
    \/ HandlerInvalid \/ HandlerQuit \/ HandlerEof \/ HandlerInterrupt
    \/ HandlerBreak

\* positions of the main thread after it has left player.start()
AfterStart == {"returned", "main_except", "main_stopping", "main_done",
               "main_raised"}

\* what start() has written so far, and the capture its to_cap still holds
Here ==
    [is_running |-> is_running, state |-> state, current_cap |-> current_cap,
     current_video_path |-> current_video_path,
     transition_type |-> transition_type,
     cap |-> IF cap.opened THEN cap ELSE NoCap,
     to_cap |-> IF to_cap.opened THEN to_cap ELSE NoCap,
     open_handles |-> open_handles]

\* the same after the first read of a pass of a transition, ret1, frame1 =
\* cap1.read(), with the second read still to come
AfterFirstRead ==
    IF tr.from = "cap" THEN [Here EXCEPT !.cap = CapAfterRead(cap)]
    ELSE [Here EXCEPT !.current_cap = CapAfterRead(current_cap)]

\* the same after both reads of a pass of the self-loop
AfterBothReads ==
    [Here EXCEPT !.current_cap = CapAfterRead(current_cap),
                 !.to_cap = CapAfterRead(to_cap)]

\* the same when only the first statements of the next step of start()
\* have run: the assignments, reads and seeks one step of the render
\* thread stands for, cut after each of them but the last
Midway ==
    CASE pc = "not_started" ->
             {[Here EXCEPT !.is_running = TRUE],
              [Here EXCEPT !.is_running = TRUE, !.transition_type = args.type]}
      [] pc = "idle_loop" /\ IdleContinues /\ video_queue # <<>> ->
             {[Here EXCEPT !.state = TRANSITIONING]}
      [] pc = "ttv_finish" ->
             {[Here EXCEPT !.state = PLAYING],
              [Here EXCEPT !.state = PLAYING, !.current_cap = to_cap,
                           !.to_cap = NoCap]}
      [] pc = "tr_step" /\ tr.i < transition_frames -> {AfterFirstRead}
      [] pc = "loop_iter" /\ tr.i < transition_frames ->
             {[Here EXCEPT !.current_cap = CapAfterRead(current_cap)],
              AfterBothReads}
             \cup (IF CapReadOk(current_cap) THEN {}
                   ELSE {[AfterBothReads EXCEPT
                              !.current_cap = CapSet(current_cap, total_frames - 1)]})
      [] pc = "loop_end" ->
             {[Here EXCEPT !.to_cap = NoCap,
                           !.open_handles = @ - Opened(to_cap)]}
      [] pc = "tnv_finish" ->
             {[Here EXCEPT !.current_cap = CapRelease(current_cap),
                           !.open_handles = @ - Opened(current_cap)],
              [Here EXCEPT !.current_cap = to_cap, !.to_cap = NoCap,
                           !.open_handles = @ - Opened(current_cap)]}
      [] OTHER -> {}

\* Ctrl-C: KeyboardInterrupt is raised in the main thread, which is inside
\* player.start(), between two of its steps or between two statements of
\* one step. start() is abandoned where it stands: the with block gives the
\* lock back, the locals are gone, no capture is released; main() is in its
\* except clause
MainInterrupt ==
    /\ pc \notin AfterStart
    /\ \E m \in {Here} \cup Midway :
           /\ is_running' = m.is_running
           /\ state' = m.state
           /\ current_cap' = m.current_cap
           /\ current_video_path' = m.current_video_path
           /\ transition_type' = m.transition_type
           /\ cap' = m.cap
           /\ to_cap' = m.to_cap
           /\ open_handles' = m.open_handles
    /\ pc' = "main_except"
    /\ lock' = "free"
    /\ video_path' = NonePath
    /\ rows' = 0
    /\ total_frames' = 0
    /\ tr' = NoTr
    /\ composites' = 0
    /\ UNCHANGED <<video_queue, enqueued, dequeued, observed_stop>>
    /\ UNCHANGED <<others, transition_direction, args, terminal_rows, input_pc, fx>>

\* except KeyboardInterrupt: player.stop() is called, its first statement
\* runs
MainStop ==
    /\ pc = "main_except"
    /\ stop_pc["main_thread"] \in NoStopUnderWay
    /\ is_running' = FALSE
    /\ stop_pc' = [stop_pc EXCEPT !["main_thread"] = "check"]
    /\ pc' = "main_stopping"
    /\ UNCHANGED <<state, video_queue, current_cap, current_video_path, lock,
                   rti_waiting, enqueued, dequeued, observed_stop>>
    /\ UNCHANGED <<locals, config>>

\* stop() has returned: main() prints its last line; stop() has raised
\* AttributeError: main() ends with it
MainEnd ==
    /\ pc = "main_stopping"
    /\ stop_pc["main_thread"] \in NoStopUnderWay
    /\ pc' = IF stop_pc["main_thread"] = "raised" THEN "main_raised"
             ELSE "main_done"
    /\ UNCHANGED <<engine, lock, enqueued, dequeued, observed_stop>>
    /\ UNCHANGED <<locals, others, config>>

\* the steps of main() around player.start()
Main == MainInterrupt \/ MainStop \/ MainEnd

\* main(): the engine is constructed, the input thread has been started,
\* and player.start('wipe', 'top') is about to be called
ExampleInit ==
    /\ EngineInit(ExampleStopCallers)
    /\ args = [type |-> "wipe", direction |-> "top"]
    /\ terminal_rows \in Rows
    /\ input_pc = "menu"
    /\ fx = NoFx

\* the steps start() can take in the example, where nothing calls
\* return_to_idle()
ExampleRender ==
    \/ StartCall \/ StartLoop \/ Acquire \/ Release
    \/ IdleOpen \/ IdleOpenFailed \/ IdleLoop \/ IdleRead \/ IdleRender \/ IdleExit
    \/ TtvOpen \/ TtvCheck \/ TtvFinish \/ TtvReturn
    \/ TrStep
    \/ PlayEntry \/ PlayLoop \/ PlayRead
    \/ LoopEntry \/ LoopOpen \/ LoopIter \/ LoopEnd
    \/ TnvOpen \/ TnvCheck \/ TnvFinish

\* the part of stop() after its first statement, for both of its callers
ExampleStop == \E c \in ExampleStopCallers : StopCheck(c) \/ StopRelease(c)

ExampleNext == ExampleRender \/ Handler \/ Main \/ ExampleStop \/ Resize

ExampleSpec == ExampleInit /\ [][ExampleNext]_vars

\* ---------------------------------------------------------------- claims
IsPrefix(s, t) == Len(s) <= Len(t) /\ s = SubSeq(t, 1, Len(s))

\* C1: the requests the render loop has dequeued are, in order, a prefix of
\* the requests enqueued, and the queue holds exactly the rest: nothing is
\* served twice, skipped or reordered, whatever the interleaving of the
\* producers with the idle and playing loops.
C1_FifoExactlyOnce ==
    /\ IsPrefix(dequeued, enqueued)
    /\ video_queue = SubSeq(enqueued, Len(dequeued) + 1, Len(enqueued))

\* two different requests were waiting together and both have been served,
\* one by the idle loop and one by the playing loop
C1_Witness ==
    /\ Len(dequeued) >= 2
    /\ dequeued[1] # dequeued[2]
    /\ pc \in {"tnv_open", "tbi_open"}

Last(s) == s[Len(s)]

\* C2: entry from Idle. The idle loop hands the head of the queue to the
\* entry transition, and when the transition to a source that opened has
\* finished, the engine is Playing, current_video_path is the dequeued path
\* and current_cap is the capture that was opened for it.
C2_EntryLandsInPlaying ==
    [][/\ (pc = "idle_loop" /\ pc' = "ttv_open")
          => (state = IDLE /\ video_path' = Head(video_queue))
       /\ (pc = "ttv_finish" /\ pc' # pc)
          => /\ to_cap.opened
             /\ to_cap.path = Last(dequeued)
             /\ state' = PLAYING
             /\ current_video_path' = Last(dequeued)
             /\ current_cap' = to_cap]_vars

\* the entry transition to "a" ran its whole budget and the engine is Playing
C2_Witness ==
    /\ pc = "ttv_return"
    /\ state = PLAYING
    /\ current_video_path = "a"
    /\ current_cap.opened
    /\ current_cap.path = "a"
    /\ composites = transition_frames
    /\ is_running

\* the positions of start() outside every loop iteration: leaving the idle
\* loop, leaving the handler, the test of `while self.is_running`, returned
OutsideIterations == {"idle_exit", "release", "start_loop", "returned"}

\* a stop() was called while start() was running: the flag start() set has
\* been cleared
Stopped == pc # "not_started" /\ ~is_running

\* every call of stop() made so far has returned
StopsReturned == \A c \in DOMAIN stop_pc : stop_pc[c] = "ready"

\* C5: once stop() has been called while start() runs, start() returns, from
\* every state and with any queue contents; and once a loop of start() has
\* read is_running == False, no iteration of the idle loop, of the playing
\* loop or of the dispatch loop begins any more.
C5_StopHalts ==
    /\ [](observed_stop => pc \in OutsideIterations)
    /\ Stopped ~> (pc = "returned")

\* stop() arrived in the middle of a transition out of Playing, with a
\* request still queued, and start() has returned
C5_Witness ==
    /\ pc = "returned"
    /\ StopsReturned
    /\ state = PLAYING
    /\ video_queue # <<>>
    /\ Len(dequeued) >= 2

\* what "Idle with no current source" means
IdleNoSource ==
    state = IDLE /\ current_cap = NoCap /\ current_video_path = NonePath

\* C3: a return_to_idle() requested while the engine is Playing leads to
\* state Idle with no current source, unless the engine is stopped.
C3_ReturnToIdleReachesIdle ==
    (rti_waiting > 0 /\ state = PLAYING /\ is_running)
        ~> (IdleNoSource \/ ~is_running)

\* the positions at which the render loop reads, renders or composes frames
FrameWork == {"idle_read", "idle_render", "play_read", "tr_step", "scan_init",
              "scan_loop", "loop_iter"}

\* C4: no caller of the enqueue API waits for the render loop: the lock it
\* needs is never held by the render loop while that loop works on the
\* frames of a segment or of a transition.
C4_EnqueueNeverWaits ==
    ~(rti_waiting > 0 /\ lock = "render" /\ pc \in FrameWork)

\* C6: after stop() has run and start() has returned, no capture the engine
\* opened is still open.
C6_StopReleasesEverySource ==
    (pc = "returned" /\ StopsReturned)
        => (~cap.opened /\ ~to_cap.opened /\ ~current_cap.opened)

\* the positions whose next step reads or seeks self.current_cap
UsesCurrentCap == {"play_read", "loop_entry", "loop_end"}

\* C7: the render loop is the only user of the current capture: whenever
\* the loop is about to read or seek it, no other thread has released it.
C7_RenderLoopOwnsCurrentCap ==
    pc \in UsesCurrentCap => current_cap.opened

\* C8: when the source dequeued in the idle loop does not open, the engine
\* goes back to Idle with current_cap and current_video_path still unset,
\* the request is gone from the queue and is not put back, no composite has
\* been emitted, and _play_idle runs again unless the engine is stopped.
C8_EntryOpenFailure ==
    /\ [][(pc = "ttv_check" /\ ~to_cap.opened /\ pc' # pc)
            => /\ state = TRANSITIONING
               /\ state' = IDLE
               /\ current_cap' = NoCap
               /\ current_video_path' = NonePath
               /\ composites' = 0
               /\ video_queue' = video_queue
               /\ pc' = "ttv_return"]_vars
    /\ (pc = "ttv_return" /\ state = IDLE) ~> (pc = "idle_open" \/ ~is_running)

\* the request for "a" was dequeued in the idle loop, did not open, and the
\* idle handler runs again
C8_Witness ==
    /\ pc = "idle_loop"
    /\ dequeued = <<"a">>
    /\ IdleNoSource
    /\ is_running
    /\ cap.opened

\* C9: when the source dequeued in the playing loop does not open, the
\* request is dropped: the state stays Playing, current_cap (and its
\* position) and current_video_path are unchanged, the current source stays
\* open, no composite is emitted and the playing loop goes on.
C9_PlayingOpenFailure ==
    [][(pc = "tnv_check" /\ ~to_cap.opened /\ pc' # pc)
         => /\ state = PLAYING
            /\ state' = PLAYING
            /\ current_cap' = current_cap
            /\ current_video_path' = current_video_path
            /\ composites' = 0
            /\ video_queue' = video_queue
            /\ pc' = "play_loop"]_vars

\* "a" is playing, the request for "b" was dequeued and did not open, and
\* "a" is still the open current source
C9_Witness ==
    /\ pc = "play_loop"
    /\ dequeued = <<"a", "b">>
    /\ state = PLAYING
    /\ current_video_path = "a"
    /\ current_cap.opened
    /\ current_cap.path = "a"
    /\ is_running

\* C10: when the idle source cannot be opened, start() returns: it does not
\* go on iterating and opening the idle source again (unless a later
\* attempt has opened it after all).
C10_IdleOpenFailureEndsStart ==
    (pc = "idle_open_failed") ~> (pc \in {"returned", "idle_loop"})

\* ------------------------------------------------------------------ C11
\* the render thread is inside _transition_to_next_video or the transition
\* it runs
InSwitch ==
    \/ pc \in {"tnv_open", "tnv_check", "tnv_finish"}
    \/ pc \in {"tr_step", "scan_init", "scan_loop"} /\ tr.ret = "tnv_finish"

\* C11: a request for a video dequeued while Playing is served by a direct
\* switch. From the dequeue to the end of the switch the state is Playing
\* (never Idle) and the request is the item dequeued last; the one
\* transition that runs is entered from the open check, reads the current
\* source as the outgoing one and returns to the finish; the finish
\* releases the old source (the new capture is the only open handle), makes
\* the new capture and the requested path current and goes back to the
\* playing loop.
C11_DirectSwitch ==
    [][ /\ InSwitch =>
             /\ state = PLAYING
             /\ video_path = Last(dequeued)
             /\ video_path \in Paths
        /\ (pc' \in {"tr_step", "scan_init"} /\ pc \notin {"tr_step", "scan_init"}
              /\ tr'.ret = "tnv_finish") =>
             /\ pc = "tnv_check"
             /\ to_cap.opened
             /\ tr'.from = "current"
             /\ composites' = 0
        /\ (pc = "tnv_finish" /\ pc' # pc) =>
             /\ pc' = "play_loop"
             /\ state' = PLAYING
             /\ current_cap' = to_cap
             /\ current_cap'.opened
             /\ current_cap'.path = Last(dequeued)
             /\ current_video_path' = Last(dequeued)
             /\ open_handles' = 1
      ]_vars

\* the transition from the source "a" to the source "b" has emitted a
\* composite and is about to finish
C11_Witness ==
    /\ pc = "tnv_finish"
    /\ composites > 0
    /\ current_cap.opened
    /\ to_cap.opened
    /\ current_video_path = "a"
    /\ video_path = "b"

\* every open handle is held by cap, to_cap or current_cap
NoLeak == open_handles = Opened(cap) + Opened(to_cap) + Opened(current_cap)

\* ------------------------------------------------------------------ C12
\* the direction opposite to d
Opposite(d) ==
    CASE d = "top" -> "bottom"
      [] d = "bottom" -> "top"
      [] d = "left" -> "right"
      [] d = "right" -> "left"

\* C12: the transition that _transition_back_to_idle runs uses the
\* direction opposite to the entry direction given to start(), for each of
\* top, bottom, left and right (wipe and scan take a direction).
C12_ReturnIsOpposite ==
    (pc \in {"tr_step", "scan_init", "scan_loop"} /\ tr.ret = "tbi_finish"
       /\ transition_type \in {"wipe", "scan"})
        => tr.dir = Opposite(args.direction)

\* ------------------------------------------------------------------ C13
\* C13: whatever the algorithm (crossfade, wipe, scan), the terminal height
\* and the two sources, one transition emits at most transition_frames
\* composite frames.
C13_CompositesWithinBudget == composites <= transition_frames

\* ------------------------------------------------------------------ C14
\* C14 as stated: when the idle source has fewer frames left than the
\* budget, the entry transition is a direct cut: it emits no composite
\* before the state becomes Playing.
C14_ShortSourceCutsDirectly ==
    (tr.ret = "ttv_finish" /\ tr.rem < transition_frames) => composites = 0

\* C14 amended: when the idle source has r frames left at the call of the
\* entry transition, a crossfade or wipe emits at most min(r, budget)
\* composites before the state becomes Playing (the transition degrades to
\* fewer frames), and every algorithm emits none when r = 0.
C14_ShortSourceEmitsFewer ==
    tr.ret = "ttv_finish" =>
        /\ tr.rem = 0 => composites = 0
        /\ transition_type \in {"crossfade", "wipe"} =>
               composites <= Min(tr.rem, transition_frames)

\* a wipe or crossfade entry from an idle source with one frame left has
\* emitted one composite and is about to make the new source current
C14_Witness ==
    /\ pc = "ttv_finish"
    /\ transition_type \in {"crossfade", "wipe"}
    /\ tr.rem = 1
    /\ tr.rem < transition_frames
    /\ composites = 1

\* ------------------------------------------------ frames and composites
\* a frame of h rows and w columns read from a source: every pixel names
\* its source and its place
Frame(tag, h, w) == [r \in 0..(h - 1) |-> [c \in 0..(w - 1) |-> <<tag, r, c>>]]

\* numpy: composite[lo:hi, :] = frame[lo:hi, :]
AssignRows(composite, frame, lo, hi) ==
    [r \in DOMAIN composite |->
        IF lo <= r /\ r < hi THEN frame[r] ELSE composite[r]]

\* numpy: composite[:, lo:hi] = frame[:, lo:hi]
AssignCols(composite, frame, lo, hi) ==
    [r \in DOMAIN composite |->
        [c \in DOMAIN composite[r] |->
            IF lo <= c /\ c < hi THEN frame[r][c] ELSE composite[r][c]]]

\* int(dim * progress) for progress = k / n, the way Python computes it:
\* where dim * k / n is a whole number the result can be one less
WipeNear(dim, k, n) == FloatToInt(FloatTimes(FloatOver(FromInt(k), n), dim))

\* int(dim * (1 - progress)) for progress = k / n, the way Python computes it
WipeFar(dim, k, n) ==
    FloatToInt(FloatTimes(OneMinus(FloatOver(FromInt(k), n)), dim))

\* wipe_transition: the composite of one pass, progress = k / n
WipeComposite(direction, h1, w1, k, n) ==
    LET frame1 == Frame("outgoing", h1, w1)
        frame2 == Frame("incoming", h1, w1)
    IN  CASE direction = "top" ->
               IF WipeNear(h1, k, n) > 0
               THEN AssignRows(frame1, frame2, 0, WipeNear(h1, k, n))
               ELSE frame1
          [] direction = "bottom" ->
               IF WipeFar(h1, k, n) < h1
               THEN AssignRows(frame1, frame2, WipeFar(h1, k, n), h1)
               ELSE frame1
          [] direction = "left" ->
               IF WipeNear(w1, k, n) > 0
               THEN AssignCols(frame1, frame2, 0, WipeNear(w1, k, n))
               ELSE frame1
          [] direction = "right" ->
               IF WipeFar(w1, k, n) < w1
               THEN AssignCols(frame1, frame2, WipeFar(w1, k, n), w1)
               ELSE frame1
          [] OTHER -> frame1

\* _loop_current_video: the composite of one pass, progress = k / n
LoopWipeComposite(direction, h1, w1, k, n) ==
    LET frame1 == Frame("outgoing", h1, w1)
        frame2 == Frame("incoming", h1, w1)
    IN  CASE direction = "top" ->
               IF WipeNear(h1, k, n) > 0 /\ WipeNear(h1, k, n) <= h1
               THEN AssignRows(frame1, frame2, 0, WipeNear(h1, k, n))
               ELSE frame1
          [] direction = "bottom" ->
               IF WipeFar(h1, k, n) >= 0 /\ WipeFar(h1, k, n) < h1
               THEN AssignRows(frame1, frame2, WipeFar(h1, k, n), h1)
               ELSE frame1
          [] direction = "left" ->
               IF WipeNear(w1, k, n) > 0 /\ WipeNear(w1, k, n) <= w1
               THEN AssignCols(frame1, frame2, 0, WipeNear(w1, k, n))
               ELSE frame1
          [] direction = "right" ->
               IF WipeFar(w1, k, n) >= 0 /\ WipeFar(w1, k, n) < w1
               THEN AssignCols(frame1, frame2, WipeFar(w1, k, n), w1)
               ELSE frame1
          [] OTHER -> frame1

\* values of the attribute transition_frames for the wipes: the one in use,
\* and one at which the progress of a pass is not a binary fraction
WipeBudgets == {transition_frames, transition_frames + 3}

\* heights and widths of the frames handed to the wipes
WipeSizes == 1..(MaxRows + 2)

\* the passes of the two wipes under a budget n: pass i of wipe_transition
\* has progress i / n, pass i of the self-loop (i + 1) / n
WipeInputs ==
    {f \in [fn : {"wipe", "loop_wipe"}, direction : Directions, h : WipeSizes,
             w : WipeSizes, n : WipeBudgets,
             i : 0..(transition_frames + 2), done : {FALSE}, out : {<<>>}] :
        f.i < f.n}

\* the numerator k of the progress of a pass
WipeProgress(f) == IF f.fn = "wipe" THEN f.i ELSE f.i + 1

\* one pass of wipe_transition builds its composite
WipeStep ==
    /\ fx.fn = "wipe"
    /\ ~fx.done
    /\ fx' = [fx EXCEPT !.done = TRUE,
                        !.out = WipeComposite(fx.direction, fx.h, fx.w,
                                              WipeProgress(fx), fx.n)]
    /\ UNCHANGED program

\* one pass of the self-loop of _loop_current_video builds its composite
LoopWipeStep ==
    /\ fx.fn = "loop_wipe"
    /\ ~fx.done
    /\ fx' = [fx EXCEPT !.done = TRUE,
                        !.out = LoopWipeComposite(fx.direction, fx.h, fx.w,
                                                  WipeProgress(fx), fx.n)]
    /\ UNCHANGED program

\* the values of a pixel channel (uint8)
PixelValues == 0..255

\* cv2's saturate_cast<uchar>
Saturate(v) == Min(255, Max(0, v))

\* cvRound of x / d for x >= 0: to nearest, ties to even
RoundHalfEven(x, d) ==
    LET q == x \div d
        r == x % d
    IN  IF 2 * r < d THEN q
        ELSE IF 2 * r > d THEN q + 1
        ELSE IF q % 2 = 0 THEN q ELSE q + 1

\* cv2.addWeighted(src1, a/den, src2, b/den, gamma) on one channel value
AddWeighted(src1, a, src2, b, den, gamma) ==
    Saturate(RoundHalfEven(src1 * a + src2 * b + gamma * den, den))

\* the source position of pixel dx of a row resized from ws to w pixels,
\* (dx + 0.5) * ws / w - 0.5, in units of 1 / (2 w)
ResizeSource(dx, ws, w) == (2 * dx + 1) * ws - w

\* the bits of the interpolation weights of cv2.resize on uint8
ResizeCoefBits == 11

\* one pixel of cv2.resize(frame, (w, h)), INTER_LINEAR on uint8, for a
\* frame of one row and h = 1: the two neighbours of the source position
\* (the edge pixel alone beyond the centres of the edge pixels), weighted
\* in fixed point
ResizePixel(frame, dx, w) ==
    LET ws == Len(frame)
        scale == 2 ^ ResizeCoefBits
        num == ResizeSource(dx, ws, w)
        den == 2 * w
        inside == num >= 0 /\ num \div den < ws - 1
        sx == IF num < 0 THEN 0 ELSE Min(num \div den, ws - 1)
        r == IF inside THEN num % den ELSE 0
        a1 == RoundHalfEven(r * scale, den)
        a0 == RoundHalfEven((den - r) * scale, den)
        row == frame[sx + 1] * a0 + frame[Min(sx + 1, ws - 1) + 1] * a1
    IN  (((scale * (row \div 16)) \div 65536) + 2) \div 4

\* cv2.resize(frame, (w, 1)) for a frame of one row
CvResize(frame, w) == [i \in 1..w |-> ResizePixel(frame, i - 1, w)]

\* a blend that gives the weight alpha to the outgoing frame
BlendFrames_Swapped(frame1, frame2, k, n) ==
    LET resized == IF Len(frame1) # Len(frame2) THEN CvResize(frame2, Len(frame1))
                   ELSE frame2
    IN  [i \in 1..Len(frame1) |-> AddWeighted(frame1[i], k, resized[i], n - k, n, 0)]

\* blend_frames(frame1, frame2, alpha) for alpha = k / n, on frames of one
\* row and one channel (the shape of a frame is its width): if
\* frame1.shape != frame2.shape, frame2 is resized to the shape of frame1;
\* then cv2.addWeighted(frame1, 1 - alpha, frame2, alpha, 0)
BlendFrames(frame1, frame2, k, n) ==
    LET resized == IF Len(frame1) # Len(frame2) THEN CvResize(frame2, Len(frame1))
                   ELSE frame2
    IN  [i \in 1..Len(frame1) |-> AddWeighted(frame1[i], n - k, resized[i], k, n, 0)]

\* the rows the scan line effect brightens in one composite
scan_line_thickness == 2

\* frame heights for the scan: up to one cursor step more than the
\* tallest terminal
ScanHeights == 1..(MaxRows + ScanSpeed)

\* for offset in range(scan_line_thickness): composite[line_pos] =
\* cv2.addWeighted(composite[line_pos], 0.5, frame2[line_pos], 0.5, 50),
\* for the line_pos values of the offsets in order
RECURSIVE ScanLineEffect(_, _, _)
ScanLineEffect(composite, p2, positions) ==
    IF positions = <<>> THEN composite
    ELSE ScanLineEffect(
             [composite EXCEPT ![Head(positions)] = AddWeighted(@, 1, p2, 1, 2, 50)],
             p2, Tail(positions))

\* end_line = min(current_line + scan_speed, total_lines)
EndLine(current_line, scan_speed, total_lines) ==
    Min(current_line + scan_speed, total_lines)

\* start_line = max(total_lines - current_line - scan_speed, 0)
StartLine(current_line, scan_speed, total_lines) ==
    Max(total_lines - current_line - scan_speed, 0)

\* scan_transition: the composite of one pass of the while loop, by rows,
\* for an outgoing frame of value p1 and an incoming frame of value p2
ScanComposite(direction, total_lines, current_line, scan_speed, p1, p2) ==
    LET frame1 == [r \in 0..(total_lines - 1) |-> p1]
        frame2 == [r \in 0..(total_lines - 1) |-> p2]
        end_line == EndLine(current_line, scan_speed, total_lines)
        start_line == StartLine(current_line, scan_speed, total_lines)
        ahead == [o \in 1..scan_line_thickness |->
                     Min(end_line + (o - 1), total_lines - 1)]
        behind == [o \in 1..scan_line_thickness |-> Max(start_line - (o - 1), 0)]
    IN  IF direction = "top"
        THEN IF end_line < total_lines
             THEN ScanLineEffect(AssignRows(frame1, frame2, 0, end_line), p2, ahead)
             ELSE AssignRows(frame1, frame2, 0, end_line)
        ELSE IF start_line > 0
             THEN ScanLineEffect(AssignRows(frame1, frame2, start_line, total_lines),
                                 p2, behind)
             ELSE AssignRows(frame1, frame2, start_line, total_lines)

\* the cursor positions the while loop of scan_transition visits
ScanCursors(h) == {l \in 0..(h - 1) : l % LinesPerFrame(h) = 0}

\* the passes of scan_transition: a dark and a bright frame either way
ScanInputs ==
    UNION {{f \in [fn : {"scan"}, direction : Directions, h : {h},
                    line : ScanCursors(h), p1 : {40, 200}, p2 : {40, 200},
                    done : {FALSE}, out : {<<>>}] : f.p1 # f.p2} :
           h \in ScanHeights}

\* one pass of scan_transition builds its composite
ScanStep ==
    /\ fx.fn = "scan"
    /\ ~fx.done
    /\ fx' = [fx EXCEPT !.done = TRUE,
                        !.out = ScanComposite(fx.direction, fx.h, fx.line,
                                              ScanSpeed, fx.p1, fx.p2)]
    /\ UNCHANGED program

\* self.transition_frames = 15 of AsciiStrategy
StrategyTransitionFrames == 15

\* alpha = k / n: the whole range 0.0 to 1.0 in steps of the transition
\* budget, and three steps of the budget of 15
Alphas ==
    [k : 0..transition_frames, n : {transition_frames}]
    \cup [k : {1, 7, 14}, n : {StrategyTransitionFrames}]

\* the widths of the frames blended and the values of their pixels when
\* more than one pixel is blended
FrameWidths == 1..2
Shades == {0, 1, 255}

\* the calls of blend_frames: two frames of one pixel of any two values,
\* and two frames of one or two pixels, of the same width or not
BlendInputs ==
    [fn : {"blend"},
     frame1 : {<<p>> : p \in PixelValues},
     frame2 : {<<p>> : p \in PixelValues},
     alpha : Alphas, done : {FALSE}, out : {<<>>}]
    \cup [fn : {"blend"},
          frame1 : UNION {[1..w -> Shades] : w \in FrameWidths},
          frame2 : UNION {[1..w -> Shades] : w \in FrameWidths},
          alpha : Alphas, done : {FALSE}, out : {<<>>}]

\* blend_frames returns the blended frame
BlendStep ==
    /\ fx.fn = "blend"
    /\ ~fx.done
    /\ fx' = [fx EXCEPT !.done = TRUE,
                        !.out = BlendFrames(fx.frame1, fx.frame2,
                                            fx.alpha.k, fx.alpha.n)]
    /\ UNCHANGED program

\* ---------------------------------------------------------- the rasterizer
\* the glyphs of the luminance lookup, from dark to bright
Ramp == <<" ", ".", ":", "+", "#", "@">>

\* image_processor.pixel_to_ascii(pixel): one printable character, looked
\* up by the luminance of the pixel
PixelToAscii(pixel) == <<Ramp[(pixel * Len(Ramp)) \div 256 + 1]>>

\* a frame with a gradient of luminance
LumFrame(h, w) == [j \in 0..(h - 1) |-> [i \in 0..(w - 1) |-> ((j * w + i) * 51) % 256]]

\* printing_width = int(min(int(cols), (w*2))/2)
PrintingWidth(cols, w) == Min(cols, w * 2) \div 2

\* pad = max(int(cols) - printing_width*2, 0)
Pad(cols, w) == Max(cols - PrintingWidth(cols, w) * 2, 0)

\* the strings of a sequence joined
RECURSIVE Join(_)
Join(strs) == IF strs = <<>> THEN <<>> ELSE Head(strs) \o Join(Tail(strs))

\* convert_frame_pixels_to_ascii(frame, (cols, _)) without new_line_chars:
\* the rows appended to msg, each with the strings of its pixels and the
\* number of spaces after them, before the final "\r\n"
ConvertFramePixelsToAscii(frame, h, w, cols) ==
    [j \in 1..(h - 1) |->
        [cells |-> [i \in 1..PrintingWidth(cols, w) |-> PixelToAscii(frame[j - 1][i - 1])],
         pad |-> Pad(cols, w)]]

\* msg: the rows and the final "\r\n"
Msg(rowsOut) ==
    Join([j \in 1..Len(rowsOut) |->
             Join(rowsOut[j].cells) \o [x \in 1..rowsOut[j].pad |-> " "]])
    \o <<"\r", "\n">>

\* frames and terminal widths handed to the rasterizer
AsciiInputs ==
    [fn : {"ascii"}, h : 1..MaxRows, w : 1..MaxRows, cols : 1..(2 * MaxRows + 2),
     done : {FALSE}, out : {<<>>}]

\* convert_frame_pixels_to_ascii returns
AsciiStep ==
    /\ fx.fn = "ascii"
    /\ ~fx.done
    /\ fx' = [fx EXCEPT !.done = TRUE,
                        !.out = ConvertFramePixelsToAscii(LumFrame(fx.h, fx.w),
                                                          fx.h, fx.w, fx.cols)]
    /\ UNCHANGED program

\* ------------------------------------------------------- frame pacing
\* ticks of the clock in one second
TicksPerSecond == 60

\* the longest processing time of one frame, in ticks
MaxElapsed == 5

\* the frame rate used when the capture reports none
DefaultFps == 30

\* what cap.get(cv2.CAP_PROP_FPS) may report: 0 when the rate is unknown
FrameRates == {0, 20, 24, 25, 30, 50, 60, 120}

\* the clock at the start of a frame, in ticks
StartTicks == {0, 1, TicksPerSecond}

\* a reading of time.process_time(): the double nearest to n ticks, in
\* seconds
ProcessTime(n) == FloatOver(FromInt(n), TicksPerSecond)

\* time_delta = 1.0 / (cap.get(cv2.CAP_PROP_FPS) or 30), a double, in
\* seconds
TimeDelta(fps) == FloatOver(FromInt(1), IF fps = 0 THEN DefaultFps ELSE fps)

\* a pacing that sleeps a whole frame interval after every frame
PaceSleep_WholeInterval(time_delta, t0, t1) == Canonical(time_delta)

\* delta = time_delta - (t1 - t0); if delta > 0: time.sleep(delta): the
\* time slept, a double, in seconds. Both subtractions are those of
\* doubles; the clock does not run backwards (t1 >= t0)
PaceSleep(time_delta, t0, t1) ==
    LET delta == FloatMinus(time_delta, Magnitude(FloatMinus(t1, t0)))
    IN  IF ~delta.neg /\ delta.m # <<>> THEN Canonical(Magnitude(delta))
        ELSE FromInt(0)

\* the frames of the idle and playing loops: the clock at t0 and the
\* processing time e of the frame
PaceInputs ==
    [fn : {"pace"}, fps : FrameRates, t0 : StartTicks, e : 0..MaxElapsed,
     done : {FALSE}, out : {<<>>}]

\* one rendered frame of the idle or playing loop is paced
PaceStep ==
    /\ fx.fn = "pace"
    /\ ~fx.done
    /\ fx' = [fx EXCEPT !.done = TRUE,
                        !.out = PaceSleep(TimeDelta(fx.fps), ProcessTime(fx.t0),
                                         ProcessTime(fx.t0 + fx.e))]
    /\ UNCHANGED program

\* ------------------------------------- the frame-level specification
\* one call of a frame-level function on inputs the engine can hand to it;
\* the engine is as constructed
FrameInit ==
    /\ EngineInit(StopCallers)
    /\ args = [type |-> "wipe", direction |-> "top"]
    /\ terminal_rows = MaxRows
    /\ input_pc = NoHandler
    /\ \/ fx \in WipeInputs
       \/ fx \in ScanInputs
       \/ fx \in BlendInputs
       \/ fx \in AsciiInputs
       \/ fx \in PaceInputs

FrameNext ==
    WipeStep \/ LoopWipeStep \/ ScanStep \/ BlendStep \/ AsciiStep \/ PaceStep

FrameSpec == FrameInit /\ [][FrameNext]_vars

\* the call has returned
Done(fn) == fx.fn = fn /\ fx.done

\* ------------------------------------------------------- the distance signal
\* calls of check_distance in one run
MaxSamples == 12

\* the number of times 2 divides m > 0
RECURSIVE TrailingZeros(_)
TrailingZeros(m) == IF m % 2 = 1 THEN 0 ELSE 1 + TrailingZeros(m \div 2)

\* the float sign * m * 2^exp with m made odd; zero keeps its sign
Number(sign, m, exp) ==
    IF m = 0 THEN [kind |-> "number", sign |-> sign, m |-> 0, exp |-> 0]
    ELSE LET z == TrailingZeros(m)
         IN  [kind |-> "number", sign |-> sign, m |-> m \div 2 ^ z, exp |-> exp + z]

\* the float of a whole number n > 0
Whole(n) == Number(1, n, 0)

\* distance.check_distance(): struct.unpack('f', bites)[0] for the 4 bytes
\* read from the serial port, a little-endian IEEE-754 float of sign bit,
\* 8 exponent bits and 23 fraction bits, decoded exactly: a number
\* sign * m * 2^exp (the zeros and the denormals under exponent 0), an
\* infinity or not-a-number (exponent 255)
check_distance(bites) ==
    LET sign == IF bites[4] \div 128 = 1 THEN 0 - 1 ELSE 1
        exponent == (bites[4] % 128) * 2 + bites[3] \div 128
        fraction == (bites[3] % 128) * 65536 + bites[2] * 256 + bites[1]
    IN  IF exponent = 255
        THEN [kind |-> IF fraction = 0 THEN "inf" ELSE "nan", sign |-> sign,
              m |-> 0, exp |-> 0]
        ELSE IF exponent = 0 THEN Number(sign, fraction, 0 - 149)
        ELSE Number(sign, 8388608 + fraction, exponent - 150)

\* the bytes of 18.0, 22.0, 19.0, 21.0, 20.0
ExampleBytes ==
    << <<0, 0, 144, 65>>, <<0, 0, 176, 65>>, <<0, 0, 152, 65>>,
       <<0, 0, 168, 65>>, <<0, 0, 160, 65>> >>

\* what distance.ser.read(4) may deliver as sample number n + 1: the next
\* sample of the example or one of 0.0, -5.0, 500.0; after the example
\* 18.5 or +infinity
Transport(n) ==
    IF n < Len(ExampleBytes)
    THEN {ExampleBytes[n + 1], <<0, 0, 0, 0>>, <<0, 0, 160, 192>>, <<0, 0, 250, 67>>}
    ELSE {<<0, 0, 148, 65>>, <<0, 0, 128, 127>>}

\* nothing has been read from the serial port
DistInit ==
    /\ EngineInit(StopCallers)
    /\ args = [type |-> "wipe", direction |-> "top"]
    /\ terminal_rows = MaxRows
    /\ input_pc = NoHandler
    /\ fx = [fn |-> "distance", history |-> <<>>, returned |-> <<>>]

\* one call of distance.check_distance(): 4 bytes are read and the float
\* they encode is returned to the caller
CheckDistanceCall(bites) ==
    /\ fx.fn = "distance"
    /\ Len(fx.history) < MaxSamples
    /\ fx' = [fx EXCEPT !.history = Append(@, bites),
                        !.returned = Append(@, check_distance(bites))]
    /\ UNCHANGED program

DistNext == \E bites \in Transport(Len(fx.history)) : CheckDistanceCall(bites)

DistSpec == DistInit /\ [][DistNext]_vars

\* ------------------------------------------------------------------ C15
\* the side of the boundary already swept at progress k / n
SweptSide(d, h, w, k, n, r, c) ==
    CASE d = "top" -> r < (h * k) \div n
      [] d = "left" -> c < (w * k) \div n
      [] d = "bottom" -> r >= (h * (n - k)) \div n
      [] d = "right" -> c >= (w * (n - k)) \div n

\* C15: in a wipe composite (of wipe_transition and of the self-loop) a
\* pixel comes from the incoming frame exactly when it lies on the swept
\* side of the boundary, floor(dimension * progress) for top / left and
\* floor(dimension * (1 - progress)) for bottom / right, and from the
\* outgoing frame otherwise; with direction top, progress 0 gives the
\* outgoing frame and progress 1 the incoming frame.
C15_WipeSweptSide ==
    (Done("wipe") \/ Done("loop_wipe")) =>
        LET k == WipeProgress(fx)
            n == fx.n
        IN  /\ \A r \in 0..(fx.h - 1), c \in 0..(fx.w - 1) :
                  fx.out[r][c] =
                      IF SweptSide(fx.direction, fx.h, fx.w, k, n, r, c)
                      THEN <<"incoming", r, c>>
                      ELSE <<"outgoing", r, c>>
            /\ (fx.direction = "top" /\ k = 0) => fx.out = Frame("outgoing", fx.h, fx.w)
            /\ (fx.direction = "top" /\ k = n) => fx.out = Frame("incoming", fx.h, fx.w)

\* ------------------------------------------------------------------ C16
\* C16: in a scan composite, for direction top and for direction bottom,
\* every row of the region the cursor has passed is the incoming row
\* exactly, and a row that is neither passed nor one of the 2 rows right
\* ahead of the cursor is the outgoing row: blended rows lie in that band
\* only.
C16_ScanSweptExact ==
    (Done("scan") /\ fx.direction \in {"top", "bottom"}) =>
        LET end_line == EndLine(fx.line, ScanSpeed, fx.h)
            start_line == StartLine(fx.line, ScanSpeed, fx.h)
            Passed(r) == IF fx.direction = "top" THEN r < end_line ELSE r >= start_line
            Band(r) == IF fx.direction = "top"
                       THEN r \in {end_line, end_line + 1}
                       ELSE r \in {start_line - 1, start_line - 2}
        IN  \A r \in 0..(fx.h - 1) :
                /\ Passed(r) => fx.out[r] = fx.p2
                /\ (~Passed(r) /\ ~Band(r)) => fx.out[r] = fx.p1

\* ------------------------------------------------------------------ C17
\* |a|
Abs(a) == IF a >= 0 THEN a ELSE 0 - a

\* v is the linear interpolation p1 * (1 - k/n) + p2 * k/n to the nearest
\* value
Interpolates(v, p1, p2, k, n) == 2 * Abs(n * v - (p1 * (n - k) + p2 * k)) <= n

\* C17 as stated: blend_frames returns frame1 * (1 - alpha) + frame2 *
\* alpha per pixel (to the nearest value): the outgoing frame exactly at
\* alpha = 0, the incoming frame exactly at alpha = 1, for all values
\* 0..255.
C17_BlendInterpolates ==
    Done("blend") =>
        LET k == fx.alpha.k
            n == fx.alpha.n
        IN  /\ k = 0 => fx.out = fx.frame1
            /\ k = n => fx.out = fx.frame2
            /\ \A i \in 1..Min(Len(fx.out), Len(fx.frame2)) :
                   /\ fx.out[i] \in PixelValues
                   /\ Interpolates(fx.out[i], fx.frame1[i], fx.frame2[i], k, n)

\* C17 amended: the result has the shape of the outgoing frame and is per
\* pixel the interpolation of the outgoing frame and the incoming frame
\* brought to that shape: the incoming frame itself when the shapes agree,
\* the incoming frame resized when they differ (one incoming pixel is
\* repeated, two are averaged). At alpha = 0 it is the outgoing frame
\* exactly; at alpha = 1 it is the incoming frame exactly when the shapes
\* agree and the resized incoming frame when they differ.
C17_BlendInterpolatesResized ==
    Done("blend") =>
        LET k == fx.alpha.k
            n == fx.alpha.n
            same == Len(fx.frame1) = Len(fx.frame2)
            incoming == IF same THEN fx.frame2 ELSE CvResize(fx.frame2, Len(fx.frame1))
        IN  /\ Len(fx.out) = Len(fx.frame1)
            /\ k = 0 => fx.out = fx.frame1
            /\ (k = n /\ same) => fx.out = fx.frame2
            /\ (k = n /\ ~same) =>
                   \A i \in 1..Len(fx.out) :
                       IF Len(fx.frame2) = 1 THEN fx.out[i] = fx.frame2[1]
                       ELSE Interpolates(fx.out[i], fx.frame2[1], fx.frame2[2], 1, 2)
            /\ \A i \in 1..Len(fx.out) :
                   /\ fx.out[i] \in PixelValues
                   /\ Interpolates(fx.out[i], fx.frame1[i], incoming[i], k, n)

\* an incoming frame of a black and a white pixel blended at alpha = 1
\* into an outgoing frame of one black pixel: the result is one grey
\* pixel, the incoming frame resized
C17_Witness ==
    /\ Done("blend")
    /\ fx.frame1 = <<0>>
    /\ fx.frame2 = <<0, 255>>
    /\ fx.alpha.k = fx.alpha.n
    /\ fx.out = <<128>>

\* ------------------------------------------------------------------ C18
\* C18: without explicit line breaks the rasterizer emits h - 1 rows, and
\* in each row the characters emitted for pixels plus the padding spaces
\* are cols.
C18_RowFillsColumns ==
    Done("ascii") =>
        /\ Len(fx.out) = fx.h - 1
        /\ \A j \in 1..Len(fx.out) :
               Len(Join(fx.out[j].cells)) + fx.out[j].pad = fx.cols

\* ------------------------------------------------------------------ C19
\* v <= c for a positive number v and a whole number c
AtMost(v, c) ==
    IF v.exp >= 0
    THEN v.exp < 31 /\ v.m <= c \div 2 ^ v.exp
    ELSE LET k == 0 - v.exp
         IN  IF k >= 31 THEN c >= 1 ELSE (v.m + 2 ^ k - 1) \div 2 ^ k <= c

\* the last n elements of a sequence
LastN(seq, n) == SubSeq(seq, Max(1, Len(seq) - n + 1), Len(seq))

\* the least exponent of a sequence of numbers, at most e
RECURSIVE LeastExp(_, _)
LeastExp(seq, e) ==
    IF seq = <<>> THEN e
    ELSE LeastExp(Tail(seq), IF Head(seq).exp < e THEN Head(seq).exp ELSE e)

\* the sum of a sequence of numbers in units of 2^e
RECURSIVE SumAt(_, _)
SumAt(seq, e) ==
    IF seq = <<>> THEN 0
    ELSE Head(seq).sign * Head(seq).m * 2 ^ (Head(seq).exp - e) + SumAt(Tail(seq), e)

\* the sum of a sequence of positive numbers
Sum(seq) == LET e == LeastExp(seq, 0) IN Number(1, SumAt(seq, e), e)

\* The validity ceiling has no value in the specification or in the code.
\* The example of the claim makes 18 .. 22 valid, so for the samples of the
\* transport every ceiling acts as 22 (500 is above it) or as 500 (it is
\* not); infinity is above every ceiling.
Ceilings == {22, 500}

\* C19: the value a reader obtains is the arithmetic mean of the sliding
\* window of the at most 10 most recent valid samples, a sample being
\* valid when it is positive and not above the ceiling (whatever the
\* ceiling is), and never a raw sample: once a valid sample has been read,
\* the value times the number of samples in the window is their sum; the
\* samples 18, 22, 19, 21, 20 give 20.0.
C19_PublishedIsWindowMean ==
    (fx.fn = "distance" /\ fx.returned # <<>>) =>
        \E ceiling \in Ceilings :
            LET Valid(v) == /\ v.kind = "number"
                            /\ v.sign = 1
                            /\ v.m > 0
                            /\ AtMost(v, ceiling)
                window == LastN(SelectSeq(fx.returned, Valid), 10)
                latest == fx.returned[Len(fx.returned)]
            IN  /\ window # <<>> =>
                       /\ latest.kind = "number"
                       /\ Number(latest.sign, latest.m * Len(window), latest.exp)
                              = Sum(window)
                /\ fx.history = ExampleBytes => latest = Whole(20)

\* ------------------------------------------------------------------ C20
\* the render thread is inside crossfade_transition, wipe_transition,
\* scan_transition or the self-loop transition of _loop_current_video
InTransition == pc \in {"tr_step", "scan_init", "scan_loop", "loop_iter"}

\* C20: a transition never stalls. Every invocation of crossfade, wipe,
\* scan and of the self-loop returns, whichever source runs out and
\* whenever; on the way the loop index stays within the budget, the scan
\* cursor within one step of the frame height, and the composites (one
\* pair of frame reads each) within the larger of budget and height.
C20_TransitionTerminates ==
    /\ [](InTransition =>
            /\ tr.i <= transition_frames
            /\ tr.line < tr.h + LinesPerFrame(tr.h)
            /\ composites <= Max(transition_frames, MaxRows))
    /\ (InTransition ~> ~InTransition)

\* a scan over the tallest frame has ended although the incoming source
\* ran out while it was running
C20_Witness ==
    /\ pc \in {"ttv_finish", "tnv_finish", "tbi_finish"}
    /\ transition_type = "scan"
    /\ tr.h = MaxRows
    /\ tr.line >= tr.h
    /\ composites = MaxRows
    /\ to_cap.opened
    /\ ~CapReadOk(to_cap)

\* ------------------------------------------------------------------ C21
\* C21: in the scan transition the cursor advances by scan_speed rows per
\* emitted frame, whatever the budget: after n composites of one scan the
\* cursor is at n * scan_speed, and the step of the cursor for the frame
\* height in use is the same for every value of transition_frames.
C21_ScanCursorFixedSpeed ==
    pc = "scan_loop" =>
        /\ tr.line = composites * ScanSpeed
        /\ \A b \in Budgets : LinesPerFrameAt(tr.h, b) = LinesPerFrame(tr.h)

\* ------------------------------------------------------------------ C22
\* C22: when a read fails in a pass of a crossfade or wipe before the
\* budget is used up, the transition returns in that pass without a
\* composite, and it returns the incoming frame if only the outgoing source
\* is exhausted, the outgoing frame if only the incoming source is
\* exhausted, and None if both are.
C22_ExhaustedReturnsAvailableFrame ==
    [][(pc = "tr_step" /\ tr.i < transition_frames
          /\ ~(CapReadOk(FromCap) /\ CapReadOk(to_cap)) /\ tr' # tr)
         => /\ pc' = tr.ret
            /\ composites' = composites
            /\ tr'.i = tr.i
            /\ tr'.out = CASE ~CapReadOk(FromCap) /\ CapReadOk(to_cap) -> "frame2"
                           [] CapReadOk(FromCap) /\ ~CapReadOk(to_cap) -> "frame1"
                           [] OTHER -> "None"]_vars

\* the outgoing source ran out after one composite of a transition out of
\* Playing and the transition has returned the incoming frame
C22_Witness ==
    /\ pc \in {"tnv_finish", "tbi_finish"}
    /\ transition_type \in {"crossfade", "wipe"}
    /\ composites = 1
    /\ tr.i = 1
    /\ tr.out = "frame2"
    /\ ~CapReadOk(current_cap)
    /\ current_cap.opened

\* ------------------------------------------------------------------ C23
\* the render thread is inside _loop_current_video
InSelfLoop == pc \in {"loop_entry", "loop_open", "loop_iter", "loop_end"}

\* C23: the self-loop at the natural end of the current source. It is
\* entered from the playing loop when the queue was found empty and the
\* read of the current source failed; the live capture is
\* sought to max(0, total_frames - budget - 2); a second handle is opened
\* on the same path at frame 0; at most budget composites are emitted; the
\* second handle is released; the state is Playing and current_video_path
\* unchanged throughout, and at the end the live capture is at frame 0 and
\* the playing loop goes on. When the second handle does not open, the live
\* capture is sought to frame 0 and nothing else happens.
C23_SelfLoop ==
    [][ /\ (pc' = "loop_entry" /\ pc # pc') =>
             /\ pc = "play_read"
             /\ ~CapReadOk(current_cap)
        /\ (pc' = "play_read" /\ pc # pc') => video_queue = <<>>
        /\ InSelfLoop =>
             /\ state = PLAYING /\ state' = PLAYING
             /\ current_video_path' = current_video_path
        /\ (pc = "loop_entry" /\ pc' = "loop_open" /\ current_cap.opened) =>
             /\ total_frames' = FrameCount(current_video_path)
             /\ current_cap'.pos =
                    Max(0, FrameCount(current_video_path) - transition_frames - 2)
        /\ (pc = "loop_open" /\ pc' = "loop_iter") =>
             /\ to_cap'.opened
             /\ to_cap'.path = current_video_path
             /\ to_cap'.pos = 0
             /\ current_cap' = current_cap
             /\ composites' = 0
        /\ (pc = "loop_open" /\ pc' = "play_loop") =>
             /\ to_cap' = to_cap
             /\ ~to_cap'.opened
             /\ open_handles' = open_handles
             /\ composites' = 0
             /\ current_cap'.pos = 0
             /\ current_cap'.opened = current_cap.opened
        /\ (pc' \in {"loop_iter", "loop_end"}) => composites' <= transition_frames
        /\ (pc = "loop_end" /\ pc' # pc) =>
             /\ pc' = "play_loop"
             /\ to_cap.opened
             /\ ~to_cap'.opened
             /\ open_handles' = open_handles - 1
             /\ current_cap'.pos = 0
             /\ current_cap'.opened = current_cap.opened
      ]_vars

\* the long source "a" has played to its end, the live capture was sought
\* to a tail position above 0, the whole budget of composites was emitted
\* and the second handle is about to be released
C23_Witness ==
    /\ pc = "loop_end"
    /\ current_video_path = "a"
    /\ total_frames = LongFrames
    /\ TransitionStart(total_frames) > 0
    /\ composites = transition_frames
    /\ current_cap.opened
    /\ current_cap.pos = TransitionStart(total_frames) + transition_frames
    /\ to_cap.opened
    /\ to_cap.pos = transition_frames
    /\ video_queue = <<>>

\* ------------------------------------------------------------------ C24
\* crossfade_transition, wipe_transition or scan_transition is running
\* between two sources
TransitionRunning == pc \in {"tr_step", "scan_init", "scan_loop"}

\* C24: while a transition between two sources is running (entry from
\* Idle, video to video, return to idle) the state is Transitioning; the
\* state is Idle or Playing only when no transition is running.
C24_TransitioningWhileInFlight ==
    TransitionRunning => state = TRANSITIONING

\* ------------------------------------------------------------------ C25
\* C25: the terminal size is sampled fresh before each transition and
\* before each segment: the size handed to a transition when it is called
\* is the size the terminal has at that moment, and the clip that plays
\* after a switch to a requested video is rendered at the size the terminal
\* has when it starts, also when the terminal was resized while the
\* previous clip was playing.
C25_DimensionsSampledFresh ==
    [][ /\ (pc' \in {"ttv_open", "tnv_open", "tbi_open"} /\ pc' # pc)
             => rows' = terminal_rows'
        /\ (pc = "tnv_finish" /\ pc' = "play_loop")
             => rows' = terminal_rows' ]_vars

\* ------------------------------------------------------------------ C26
\* C26: when the read of the idle source fails at its end, the idle loop
\* seeks the capture to frame 0 and goes straight to its next iteration,
\* where the queue is checked: the state is Idle before and after, the
\* capture is the same open handle (nothing is opened or released), and no
\* frame is rendered.
C26_IdleRewinds ==
    [][(pc = "idle_read" /\ ~CapReadOk(cap) /\ pc' # pc)
         => /\ state = IDLE
            /\ state' = IDLE
            /\ pc' = "idle_loop"
            /\ cap.opened
            /\ cap'.opened
            /\ cap'.path = cap.path
            /\ cap'.pos = 0
            /\ open_handles' = open_handles
            /\ video_queue' = video_queue]_vars

\* the idle loop has rendered every frame of the idle video and is about
\* to read at its end, with a request that arrived after the queue check
C26_Witness ==
    /\ pc = "idle_read"
    /\ state = IDLE
    /\ cap.opened
    /\ cap.pos = MaxFrames
    /\ ~CapReadOk(cap)
    /\ video_queue # <<>>
    /\ is_running

\* ------------------------------------------------------------------ C27
\* the frame interval T the loop computes for the frame paced
PaceInterval == FloatOver(FromInt(1), IF fx.fps = 0 THEN 30 ELSE fx.fps)

\* the processing time e the loop measures for the frame paced, t1 - t0
PaceElapsed ==
    Magnitude(FloatMinus(ProcessTime(fx.t0 + fx.e), ProcessTime(fx.t0)))

\* 2^53 * |a - b| <= c for numbers a, b, c >= 0
WithinRounding(a, b, c) ==
    LET d == IF FloatLess(a, b) THEN ExactMinus(b, a) ELSE ExactMinus(a, b)
    IN  ~FloatLess(c, [m |-> d.m, exp |-> d.exp + DoubleBits])

\* C27 as stated: for the frame interval T = 1 / fps (fps 30 when the
\* capture reports none) and the processing time e of a rendered frame, the
\* loop sleeps T - e when e < T and not at all otherwise: it sleeps only
\* when the processing finished early, and processing plus sleep does not
\* exceed max(T, e).
C27_PacingWithinBudget ==
    Done("pace") =>
        LET T == PaceInterval
            e == PaceElapsed
        IN  IF FloatLess(e, T)
            THEN /\ SameValue(fx.out, ExactMinus(T, e))
                 /\ ~FloatLess(ExactMinus(T, e), fx.out)
            ELSE fx.out.m = <<>>

\* C27 amended: the loop sleeps only when the processing finished early
\* (e < T, for the doubles T and e it computes) and not at all otherwise;
\* the sleep is T - e rounded to a double: it is T - e whenever that
\* difference has at most 53 significant bits and differs from it by at
\* most a 2^-53 part of it always, so processing plus sleep exceeds
\* max(T, e) by no more than that.
C27_PacingWithinRounding ==
    Done("pace") =>
        LET T == PaceInterval
            e == PaceElapsed
        IN  IF FloatLess(e, T)
            THEN LET exact == ExactMinus(T, e)
                 IN  /\ fx.out.m # <<>>
                     /\ BigBitLength(Canonical(exact).m) <= DoubleBits
                            => SameValue(fx.out, exact)
                     /\ WithinRounding(fx.out, exact, exact)
            ELSE fx.out.m = <<>>

\* a frame of a capture that reports 60 frames per second, started one
\* second into the process, took one tick by the clock: the difference of
\* the two readings is just under the interval and the loop sleeps
\* 17 * 2^-58 seconds
C27_Witness ==
    /\ Done("pace")
    /\ fx.fps = 60
    /\ fx.t0 = TicksPerSecond
    /\ fx.e = 1
    /\ FloatLess(PaceElapsed, PaceInterval)
    /\ fx.out = [m |-> <<17>>, exp |-> 0 - 58]

\* ------------------------------------------------------------------ C28
\* C28: whenever start() dispatches on the state (it is about to take the
\* lock, or has just chosen the handler), the state is Idle or Playing,
\* never Transitioning, so a handler runs; the state is Playing exactly
\* when current_cap and current_video_path are both set; and the idle
\* handler is entered with no current source assigned.
C28_DispatchConsistent ==
    pc \in {"acquire", "idle_open", "play_entry"} =>
        /\ state \in {IDLE, PLAYING}
        /\ Dispatch(state) \in {"idle_open", "play_entry"}
        /\ (state = PLAYING) <=>
               (current_cap # NoCap /\ current_video_path # NonePath)
        /\ pc = "idle_open" => IdleNoSource
        /\ pc = "play_entry" => state = PLAYING

\* the engine has played "a", was sent back to idle, and start() has
\* dispatched to the idle handler
C28_Witness ==
    /\ pc = "idle_open"
    /\ dequeued = <<"a", NonePath>>
    /\ IdleNoSource
    /\ lock = "render"
    /\ is_running

\* ------------------------------------------------------------------ C29
\* C29: the sentinel of return_to_idle() is dequeued by the playing loop
\* only: the item the idle loop has dequeued and hands to the entry
\* transition is never None, however many callers of return_to_idle() there
\* are and however they interleave with the render loop.
C29_IdleNeverDequeuesSentinel ==
    pc \in {"ttv_open", "ttv_check"} => video_path # NonePath

\* ------------------------------------------------------------------ C30
\* a transition is in progress: from the check of the handle opened for it
\* to the statement that releases or hands over the handle no longer needed
\* (entry, switch, return to idle, self-loop)
TransitionInProgress ==
    pc \in {"ttv_check", "ttv_finish", "ttv_return", "tnv_check", "tnv_finish",
            "tbi_check", "tbi_finish", "tr_step", "scan_init", "scan_loop",
            "loop_iter", "loop_end"}

\* C30: the engine never holds more than two source handles open (the
\* outgoing and incoming source of the transition in progress, or the live
\* capture and the second handle of the self-loop), and at most one when no
\* transition is in progress, after any requests, open failures and
\* self-loops; every open handle is the idle capture, the incoming (or
\* second) capture or the current capture.
C30_AtMostTwoHandles ==
    /\ open_handles \in 0..2
    /\ ~TransitionInProgress => open_handles <= 1
    /\ NoLeak

\* a self-loop of the source "b" is running after the request for "a" did
\* not open: the live capture and the second handle are open
C30_Witness ==
    /\ pc = "loop_iter"
    /\ open_handles = 2
    /\ current_cap.opened
    /\ to_cap.opened
    /\ current_video_path = "b"
    /\ to_cap.path = "b"
    /\ dequeued = <<"b", "a">>
    /\ composites = 1

\* ------------------------------------------------------------------ C31
\* C31: the input handler of the example, started before player.start() is
\* called, never leaves its loop because it read is_running == False
\* before start() had set it: it ends only after a quit command, end of
\* input or an interrupt.
C31_HandlerSurvivesStartup ==
    [][(input_pc' = "exit_flag" /\ input_pc # "exit_flag") => pc # "not_started"]_vars
====
